---- MODULE Spec2Model ----
(***************************************************************************)
(* Model of package mdspec (src/mdspec/mdspec.go): the conformance-test    *)
(* runner SpecCheckWithConcurrency, its sequential loop and its            *)
(* errgroup-based concurrent scheduler runTestsConcurrently.               *)
(*                                                                         *)
(* Strings that the code inspects character by character (the version      *)
(* token, file names) are sequences of one-character strings.  The         *)
(* markdown and html of a fixture, which the code only compares for        *)
(* equality, are tuples naming the fixture; the empty tuple is Go's "".    *)
(***************************************************************************)
EXTENDS Integers, Sequences, FiniteSets, TLC

\* ------------------------------------------------------------------------
\*  Bounds of the model
\* ------------------------------------------------------------------------

\* Largest number of fixtures in the fixture file of the supported version.
MaxFixtures == 3

\* Largest explicit concurrency bound passed as maxConcurrency.
MaxConcurrency == 2

\* Largest value runtime.GOMAXPROCS(0) reports.
MaxProcs == 2

\* ------------------------------------------------------------------------
\*  Values
\* ------------------------------------------------------------------------

\* const noConcurrency = -1
noConcurrency == 0 - 1

\* the default of a build that runs the fixtures sequentially
defaultConcurrency_Sequential == 0 - 1

\* const defaultConcurrency = 0
defaultConcurrency == 0

\* var prefixFileSpec = "spec_"
prefixFileSpec == <<"s", "p", "e", "c", "_">>

\* the ".json" of fmt.Sprintf("%s%s.json", prefixFileSpec, specVersion)
extJSON == <<".", "j", "s", "o", "n">>

Digits == {"0", "1", "2", "3", "4", "5", "6", "7", "8", "9"}

Letters ==
    {"a", "b", "c", "d", "e", "f", "g", "h", "i", "j", "k", "l", "m",
     "n", "o", "p", "q", "r", "s", "t", "u", "v", "w", "x", "y", "z",
     "A", "B", "C", "D", "E", "F", "G", "H", "I", "J", "K", "L", "M",
     "N", "O", "P", "Q", "R", "S", "T", "U", "V", "W", "X", "Y", "Z"}

\* the string "latest"
strLatest == <<"l", "a", "t", "e", "s", "t">>

\* v[from:] of Go, with 0-based from
Rest(v, from) == SubSeq(v, from + 1, Len(v))

\* ------------------------------------------------------------------------
\*  semver.IsValid (golang.org/x/mod/semver), called by isValidFormatVer
\* ------------------------------------------------------------------------

isIdentChar(c) == c \in Digits \cup Letters \cup {"-"}

\* number of leading digits of v
RECURSIVE DigitRun(_)
DigitRun(v) ==
    IF v = <<>> \/ Head(v) \notin Digits THEN 0 ELSE 1 + DigitRun(Tail(v))

\* isBadNum: all digits, more than one, leading zero
isBadNum(v) == DigitRun(v) = Len(v) /\ Len(v) > 1 /\ Head(v) = "0"

\* a parseInt that lets leading zeros through
parseInt_LeadingZeros(v) ==
    LET i == DigitRun(v) IN
    IF i = 0 THEN [ok |-> FALSE, rest |-> v] ELSE [ok |-> TRUE, rest |-> Rest(v, i)]

\* parseInt: a decimal integer without leading zeros, and the rest
parseInt(v) ==
    LET i == DigitRun(v) IN
    IF i = 0 \/ (Head(v) = "0" /\ i # 1)
    THEN [ok |-> FALSE, rest |-> v]
    ELSE [ok |-> TRUE, rest |-> Rest(v, i)]

\* the scan of parsePrerelease from position i (1-based), identifier start
\* at start; returns the position where the scan stopped, or 0 on failure
RECURSIVE PrereleaseScan(_, _, _)
PrereleaseScan(v, i, start) ==
    IF i > Len(v) \/ v[i] = "+"
    THEN IF start = i \/ isBadNum(SubSeq(v, start, i - 1)) THEN 0 ELSE i
    ELSE IF ~isIdentChar(v[i]) /\ v[i] # "." THEN 0
    ELSE IF v[i] = "."
         THEN IF start = i \/ isBadNum(SubSeq(v, start, i - 1)) THEN 0
              ELSE PrereleaseScan(v, i + 1, i + 1)
         ELSE PrereleaseScan(v, i + 1, start)

parsePrerelease(v) ==
    IF v = <<>> \/ Head(v) # "-" THEN [ok |-> FALSE, rest |-> v]
    ELSE LET i == PrereleaseScan(v, 2, 2) IN
         IF i = 0 THEN [ok |-> FALSE, rest |-> v]
         ELSE [ok |-> TRUE, rest |-> SubSeq(v, i, Len(v))]

RECURSIVE BuildScan(_, _, _)
BuildScan(v, i, start) ==
    IF i > Len(v)
    THEN start # i
    ELSE IF ~isIdentChar(v[i]) /\ v[i] # "." THEN FALSE
    ELSE IF v[i] = "."
         THEN IF start = i THEN FALSE ELSE BuildScan(v, i + 1, i + 1)
         ELSE BuildScan(v, i + 1, start)

parseBuild(v) ==
    IF v = <<>> \/ Head(v) # "+" THEN [ok |-> FALSE, rest |-> v]
    ELSE IF BuildScan(v, 2, 2) THEN [ok |-> TRUE, rest |-> <<>>]
    ELSE [ok |-> FALSE, rest |-> v]

\* the tail of semver's parse after the patch number
parseSuffix(v) ==
    LET pre == IF v # <<>> /\ Head(v) = "-" THEN parsePrerelease(v)
               ELSE [ok |-> TRUE, rest |-> v]
        bld == IF pre.ok /\ pre.rest # <<>> /\ Head(pre.rest) = "+"
               THEN parseBuild(pre.rest)
               ELSE pre
    IN  bld.ok /\ bld.rest = <<>>

semverIsValid(v) ==
    IF v = <<>> \/ Head(v) # "v" THEN FALSE
    ELSE LET major == parseInt(Tail(v)) IN
         IF ~major.ok THEN FALSE
         ELSE IF major.rest = <<>> THEN TRUE
         ELSE IF Head(major.rest) # "." THEN FALSE
         ELSE LET minor == parseInt(Tail(major.rest)) IN
              IF ~minor.ok THEN FALSE
              ELSE IF minor.rest = <<>> THEN TRUE
              ELSE IF Head(minor.rest) # "." THEN FALSE
              ELSE LET patch == parseInt(Tail(minor.rest)) IN
                   IF ~patch.ok THEN FALSE
                   ELSE parseSuffix(patch.rest)

\* func isValidFormatVer(verInput string) bool
isValidFormatVer(verInput) ==
    IF verInput = strLatest THEN TRUE ELSE semverIsValid(verInput)

\* ------------------------------------------------------------------------
\*  Errors (github.com/pkg/errors)
\* ------------------------------------------------------------------------

\* An error is the sequence of its layers, outermost first; the nil error
\* is the empty sequence.  A layer is a message format and its arguments.
NoError == <<>>

Layer(msg, args) == [msg |-> msg, args |-> args]

\* errors.New(msg), errors.Errorf(format, args...)
Errorf(msg, args) == <<Layer(msg, args)>>

\* a Wrap that keeps the message and drops the wrapped error
Wrap_DropsCause(err, msg, args) ==
    IF err = NoError THEN NoError ELSE <<Layer(msg, args)>>

\* a Wrap that wraps the nil error too
Wrap_WrapsNil(err, msg, args) == <<Layer(msg, args)>> \o err

\* errors.Wrap(err, msg): nil when err is nil
Wrap(err, msg, args) ==
    IF err = NoError THEN NoError ELSE <<Layer(msg, args)>> \o err

msgInvalidVersion == "invalid spec version format: %s, it should be like 'v0.14'"
msgFileNotFound == "spec file not found: "
msgReadFile == "failed to read file"
msgFileDoesNotExist == "file does not exist"
msgParseList == "failed to parse list of supported spec versions"
msgReadList == "failed to read list of supported spec versions"
msgTestFailed == "test failed"
msgFuncFailed == "error %s: the given function failed to parse markdown."
msgMismatch == "error %s: the given function did not return the expected HTML result."
msgConcurrently == "failed to run tests concurrently"
msgIntentional == "intentional error"
msgJSONSyntax == "invalid character"

\* ------------------------------------------------------------------------
\*  Fixture store (embed.FS specFiles) and the fixtures
\* ------------------------------------------------------------------------

\* type TestCase struct; the i-th record of the fixture file
Fixture(i) ==
    [Markdown |-> <<"markdown", i>>,
     HTML |-> <<"html", i>>,
     Section |-> IF i = 1 THEN "Tabs" ELSE "Precedence",
     ExampleNum |-> i]

\* a fixture file holding the first n fixtures
FixtureFile(n) == [json |-> TRUE, cases |-> [i \in 1..n |-> Fixture(i)]]

strV030 == <<"v", "0", ".", "3", "0">>

\* a file name made from the version without a trailing ".0"
nameFileSpec_Canonical(version) ==
    LET n == Len(version)
        short == IF n > 2 /\ SubSeq(version, n - 1, n) = <<".", "0">>
                 THEN SubSeq(version, 1, n - 2) ELSE version
    IN  prefixFileSpec \o short \o extJSON

\* a file name without the extension
nameFileSpec_NoExt(version) == prefixFileSpec \o version

\* nameFileSpec := fmt.Sprintf("%s%s.json", prefixFileSpec, specVersion)
nameFileSpec(version) == prefixFileSpec \o version \o extJSON

\* the "spec_list.json" that var nameFileSpecList holds
strSpecList == <<"s", "p", "e", "c", "_", "l", "i", "s", "t", ".", "j", "s", "o", "n">>

\* the "unknown" that TestListVersion_non_existing_dir patches in
strUnknown == <<"u", "n", "k", "n", "o", "w", "n">>

\* one object of spec_list.json
IndexEntry(version, date) ==
    [Version |-> version, URL |-> <<"https://spec.commonmark.org/", version>>,
     DateEnactment |-> date]

\* the version index as the repository ships it (newest first), cut short
RefIndex ==
    <<IndexEntry("v0.31.2", "2024-01-28"), IndexEntry("v0.30", "2021-06-19")>>

\* the index file holding the entries index
IndexFile(index) == [json |-> TRUE, cases |-> index]

\* the embedded corpus: the fixture file of v0.30 with n fixtures, and the
\* version index
CorpusWith(n, index) ==
    [name \in {nameFileSpec(strV030), strSpecList} |->
        IF name = strSpecList THEN IndexFile(index) ELSE FixtureFile(n)]

\* the embedded corpus with the shipped index
Corpus(n) == CorpusWith(n, RefIndex)

\* func loadFile(nameFile string) ([]byte, error)
loadFile(files, nameFile) ==
    IF nameFile \in DOMAIN files
    THEN [data |-> files[nameFile], err |-> NoError]
    ELSE [data |-> [json |-> FALSE, cases |-> <<>>],
          err |-> Wrap(Errorf(msgFileDoesNotExist, <<nameFile>>), msgReadFile, <<>>)]

\* the values of var jsonUnmarshal: json.Unmarshal, or the function the
\* tests patch in, which fails whatever it is given
UnmarshalReal == "json.Unmarshal"
UnmarshalForced == "forced error"

\* jsonUnmarshal(jsonSpec, &testCases), impl being the value of the variable
jsonUnmarshal(impl, data) ==
    IF impl = UnmarshalForced
    THEN [cases |-> <<>>, err |-> Errorf(UnmarshalForced, <<>>)]
    ELSE IF data.json
    THEN [cases |-> data.cases, err |-> NoError]
    ELSE [cases |-> <<>>, err |-> Errorf(msgJSONSyntax, <<>>)]

\* ------------------------------------------------------------------------
\*  The user function and runSingleTest
\* ------------------------------------------------------------------------

\* the string no fixture expects
BadHTML == <<"<p>bad HTML</p>">>

\* what a user function returns for the markdown of fixture tc, by the way
\* it behaves on it: right html, wrong html, failure (with no output),
\* failure together with the right html, the right html after a space
FnResult(tc, kind) ==
    IF kind = "right" THEN [out |-> tc.HTML, err |-> NoError]
    ELSE IF kind = "wrong" THEN [out |-> BadHTML, err |-> NoError]
    ELSE IF kind = "failsRight"
    THEN [out |-> tc.HTML, err |-> Errorf(msgIntentional, <<>>)]
    ELSE IF kind = "padded" THEN [out |-> <<" ">> \o tc.HTML, err |-> NoError]
    ELSE [out |-> <<>>, err |-> Errorf(msgIntentional, <<>>)]

FnKinds == {"right", "wrong", "fails"}

FnKindsAll == FnKinds \cup {"failsRight", "padded"}

\* the user functions of the given kinds: one result for every markdown of
\* the fixture file
UserFuncsOf(cases, fnKinds) ==
    LET mds == {cases[i].Markdown : i \in DOMAIN cases}
        tcOf(md) == CHOOSE i \in DOMAIN cases : cases[i].Markdown = md
    IN  {[md \in mds |-> FnResult(cases[tcOf(md)], kinds[tcOf(md)])] :
            kinds \in [DOMAIN cases -> fnKinds]}

UserFuncs(cases) == UserFuncsOf(cases, FnKinds)

\* nameTest := fmt.Sprintf("%d_%s", testCase.ExampleNum, testCase.Section)
nameTest(testCase) == <<testCase.ExampleNum, "_", testCase.Section>>

\* s without one leading space
TrimSpace(s) ==
    IF s # <<>> /\ s[1] = " " THEN Tail(s) ELSE s

\* a runSingleTest that trims the output before it compares
runSingleTest_Trims(testCase, res) ==
    LET expect == testCase.HTML
        actual == res.out
        args == <<nameTest(testCase), testCase.Markdown, expect, actual>>
    IN  IF res.err # NoError THEN Wrap(res.err, msgFuncFailed, args)
        ELSE IF TrimSpace(expect) # TrimSpace(actual) THEN Errorf(msgMismatch, args)
        ELSE NoError

\* a runSingleTest that leaves the output out of a function error
runSingleTest_BlanksActual(testCase, res) ==
    LET expect == testCase.HTML
        actual == res.out
        args == <<nameTest(testCase), testCase.Markdown, expect, actual>>
        blank == <<nameTest(testCase), testCase.Markdown, expect, <<>>>>
    IN  IF res.err # NoError THEN Wrap(res.err, msgFuncFailed, blank)
        ELSE IF expect # actual THEN Errorf(msgMismatch, args)
        ELSE NoError

\* a runSingleTest that compares the output before it looks at the error
runSingleTest_ComparesFirst(testCase, res) ==
    LET expect == testCase.HTML
        actual == res.out
        args == <<nameTest(testCase), testCase.Markdown, expect, actual>>
    IN  IF expect # actual THEN Errorf(msgMismatch, args)
        ELSE IF res.err # NoError THEN Wrap(res.err, msgFuncFailed, args)
        ELSE NoError

\* a runSingleTest that does not compare the output
runSingleTest_NoCompare(testCase, res) ==
    LET args == <<nameTest(testCase), testCase.Markdown, testCase.HTML, res.out>>
    IN  IF res.err # NoError THEN Wrap(res.err, msgFuncFailed, args) ELSE NoError

\* func runSingleTest(testCase TestCase, yourFunc ...) error, given the
\* value res that yourFunc(testCase.Markdown) returned
runSingleTest(testCase, res) ==
    LET expect == testCase.HTML
        actual == res.out
        args == <<nameTest(testCase), testCase.Markdown, expect, actual>>
    IN  IF res.err # NoError THEN Wrap(res.err, msgFuncFailed, args)
        ELSE IF expect # actual THEN Errorf(msgMismatch, args)
        ELSE NoError

\* ------------------------------------------------------------------------
\*  State
\* ------------------------------------------------------------------------

VARIABLES
    specFiles,       \* the embedded fixture store
    pc,              \* position of the caller of SpecCheckWithConcurrency
    specVersion,     \* argument specVersion
    yourFunc,        \* argument yourFunc
    maxConcurrency,  \* argument maxConcurrency
    testCases,       \* the decoded fixtures
    idx,             \* number of loop iterations begun (range testCases)
    limit,           \* errGroup's limit after SetLimit; negative: no limit
    procs,           \* what runtime.GOMAXPROCS(0) returned; 0: not read
    gstate,          \* gstate[i]: the goroutine errGroup.Go started for fixture i
    gret,            \* gret[i]: what runSingleTest returned in goroutine i
    gerr,            \* errGroup's err (the first-error slot)
    cancelled,       \* whether the group's context is cancelled
    result,          \* the error SpecCheckWithConcurrency returned
    invoked,         \* invoked[i]: invocations of yourFunc begun for fixture i
    firstFail,       \* the fixture whose failure reached errGroup first; 0: none
    jsonUnmarshalVar,  \* var jsonUnmarshal (patched by the tests)
    nameFileSpecList,  \* var nameFileSpecList (patched by the tests)
    entry,           \* the public function called
    reads,           \* the files loadFile was asked for during the call
    decodes,         \* the calls of jsonUnmarshal during the call
    listed,          \* the list ListVersion returned
    valid,           \* what isValidFormatVer returned
    earlier,         \* how the call before this one ended, as its caller noted
    peer,            \* a second call, made by another goroutine of the caller
    updater          \* the run of the fixture updater (_updater, package main)

\* the package variables the tests patch
seams == <<jsonUnmarshalVar, nameFileSpecList>>

\* what a call leaves behind for its caller to observe, and what runs beside it
obs == <<entry, reads, decodes, listed, valid, earlier, peer, updater>>

vars == <<specFiles, pc, specVersion, yourFunc, maxConcurrency, testCases,
          idx, limit, procs, gstate, gret, gerr, cancelled, result, invoked,
          firstFail, seams, obs>>

\* the second call, not made or forgotten: its position, its arguments and
\* the locals of its runTestsConcurrently
NoPeer ==
    [pc |-> "idle", yourFunc |-> <<>>, testCases |-> <<>>, idx |-> 0, limit |-> 0,
     gstate |-> <<>>, gret |-> <<>>, gerr |-> NoError, result |-> NoError,
     invoked |-> <<>>]

\* the updater not started: its position in main, the body requestGet
\* returned, specList, the number of loop iterations completed, the calls of
\* os.WriteFile in order, the exit status (-1 while it runs) and the call
\* whose failure ended it
NoUpdater ==
    [pc |-> "idle", body |-> <<>>, specList |-> <<>>, next |-> 0,
     written |-> <<>>, status |-> 0 - 1, failedAt |-> ""]

\* a nil slice, and a slice with the given elements
NilList == [isNil |-> TRUE, items |-> <<>>]
ListOf(items) == [isNil |-> FALSE, items |-> items]

\* the requested versions: supported, unsupported, malformed, "latest"
Versions ==
    {strV030, <<"v", "0", ".", "1">>, <<"0", ".", "1", "4">>, strLatest}

NumCases == Len(testCases)

\* goroutines that hold a token of the semaphore (and of the wait group)
Active == {i \in DOMAIN gstate : gstate[i] \in {"spawned", "running", "returned", "recorded"}}

\* invocations of yourFunc in flight
InFlight ==
    Cardinality({i \in DOMAIN gstate : gstate[i] = "running"})
        + (IF pc = "seqRunning" THEN 1 ELSE 0)

Init ==
    /\ \E n \in 0..MaxFixtures : specFiles = Corpus(n)
    /\ pc = "idle"
    /\ specVersion = <<>>
    /\ yourFunc = <<>>
    /\ maxConcurrency = 0
    /\ testCases = <<>>
    /\ idx = 0
    /\ limit = 0
    /\ procs = 0
    /\ gstate = <<>>
    /\ gret = <<>>
    /\ gerr = NoError
    /\ cancelled = FALSE
    /\ result = NoError
    /\ invoked = <<>>
    /\ firstFail = 0
    /\ jsonUnmarshalVar = UnmarshalReal
    /\ nameFileSpecList = strSpecList
    /\ entry = "none"
    /\ reads = <<>>
    /\ decodes = 0
    /\ listed = NilList
    /\ valid = FALSE
    /\ earlier = "none"
    /\ peer = NoPeer
    /\ updater = NoUpdater

\* ------------------------------------------------------------------------
\*  SpecCheckWithConcurrency: validation, loading, decoding
\* ------------------------------------------------------------------------

\* a check that keeps the fixtures of a call that passed and takes them,
\* without reading or decoding, in the calls that follow
LoadTestCases_Memoized(files, impl, version) ==
    LET file == loadFile(files, nameFileSpec(version))
        dec == jsonUnmarshal(impl, file.data)
    IN  IF ~isValidFormatVer(version)
        THEN [cases |-> <<>>, err |-> Errorf(msgInvalidVersion, <<version>>),
              reads |-> <<>>, decodes |-> 0]
        ELSE IF earlier = "passed" /\ file.err = NoError
        THEN [cases |-> file.data.cases, err |-> NoError,
              reads |-> <<>>, decodes |-> 0]
        ELSE IF file.err # NoError
        THEN [cases |-> <<>>,
              err |-> Wrap(file.err, msgFileNotFound, <<nameFileSpec(version)>>),
              reads |-> <<nameFileSpec(version)>>, decodes |-> 0]
        ELSE IF dec.err # NoError
        THEN [cases |-> <<>>, err |-> Wrap(dec.err, msgParseList, <<>>),
              reads |-> <<nameFileSpec(version)>>, decodes |-> 1]
        ELSE [cases |-> dec.cases, err |-> NoError,
              reads |-> <<nameFileSpec(version)>>, decodes |-> 1]

\* a check that loads and decodes the fixture file before it validates
LoadTestCases_LoadsFirst(files, impl, version) ==
    LET file == loadFile(files, nameFileSpec(version))
        dec == jsonUnmarshal(impl, file.data)
    IN  IF ~isValidFormatVer(version)
        THEN [cases |-> <<>>, err |-> Errorf(msgInvalidVersion, <<version>>),
              reads |-> <<nameFileSpec(version)>>, decodes |-> 0]
        ELSE IF file.err # NoError
        THEN [cases |-> <<>>,
              err |-> Wrap(file.err, msgFileNotFound, <<nameFileSpec(version)>>),
              reads |-> <<nameFileSpec(version)>>, decodes |-> 0]
        ELSE IF dec.err # NoError
        THEN [cases |-> <<>>, err |-> Wrap(dec.err, msgParseList, <<>>),
              reads |-> <<nameFileSpec(version)>>, decodes |-> 1]
        ELSE [cases |-> dec.cases, err |-> NoError,
              reads |-> <<nameFileSpec(version)>>, decodes |-> 1]

\* the outcome of lines 81-98: the error returned early, or the fixtures
\* (reads: the files asked for; decodes: the calls of jsonUnmarshal)
LoadTestCases(files, impl, version) ==
    IF ~isValidFormatVer(version)
    THEN [cases |-> <<>>, err |-> Errorf(msgInvalidVersion, <<version>>),
          reads |-> <<>>, decodes |-> 0]
    ELSE LET file == loadFile(files, nameFileSpec(version)) IN
         IF file.err # NoError
         THEN [cases |-> <<>>,
               err |-> Wrap(file.err, msgFileNotFound, <<nameFileSpec(version)>>),
               reads |-> <<nameFileSpec(version)>>, decodes |-> 0]
         ELSE LET dec == jsonUnmarshal(impl, file.data) IN
              IF dec.err # NoError
              THEN [cases |-> <<>>, err |-> Wrap(dec.err, msgParseList, <<>>),
                    reads |-> <<nameFileSpec(version)>>, decodes |-> 1]
              ELSE [cases |-> dec.cases, err |-> NoError,
                    reads |-> <<nameFileSpec(version)>>, decodes |-> 1]

\* a test that takes every negative value for the sequential mode
IsSequential_AnyNegative(mc) == mc < 0

\* a check that never takes the sequential branch
IsSequential_Never(mc) == FALSE

\* if maxConcurrency == noConcurrency
IsSequential(mc) == mc = noConcurrency

\* a limit one larger than asked for
ResolveLimit_OneMore(mc, gomaxprocs) ==
    IF mc = 0 THEN gomaxprocs ELSE mc + 1

\* a scheduler that always runs one fixture at a time
ResolveLimit_One(mc, gomaxprocs) == 1

\* a scheduler that sets no limit
ResolveLimit_NoLimit(mc, gomaxprocs) == 0 - 1

\* the limit runTestsConcurrently passes to errGroup.SetLimit
ResolveLimit(mc, gomaxprocs) == IF mc = 0 THEN gomaxprocs ELSE mc

\* a check that takes a fixture file without fixtures for a failure
CallBody_EmptyIsError(version, fn, mc, gomaxprocs) ==
    /\ pc = "idle"
    /\ LET loaded == LoadTestCases(specFiles, jsonUnmarshalVar, version)
           n == Len(loaded.cases)
           concurrent == ~IsSequential(mc)
       IN  /\ specVersion' = version
           /\ valid' = isValidFormatVer(version)
           /\ reads' = loaded.reads
           /\ decodes' = loaded.decodes
           /\ yourFunc' = fn
           /\ maxConcurrency' = mc
           /\ testCases' = loaded.cases
           /\ idx' = 0
           /\ gstate' = [i \in 1..n |-> "none"]
           /\ gret' = [i \in 1..n |-> NoError]
           /\ invoked' = [i \in 1..n |-> 0]
           /\ gerr' = NoError
           /\ cancelled' = FALSE
           /\ firstFail' = 0
           /\ IF loaded.err = NoError /\ concurrent
              THEN /\ limit' = ResolveLimit(mc, gomaxprocs)
                   /\ procs' = IF mc = 0 THEN gomaxprocs ELSE 0
              ELSE /\ limit' = 0
                   /\ procs' = 0
           /\ IF loaded.err # NoError
              THEN pc' = "done" /\ result' = loaded.err
              ELSE IF n = 0
              THEN pc' = "done" /\ result' = Errorf(msgTestFailed, <<>>)
              ELSE IF ~concurrent
              THEN /\ pc' = IF n = 0 THEN "done" ELSE "seq"
                   /\ result' = NoError
              ELSE /\ pc' = IF n = 0 THEN "wait" ELSE "dispatch"
                   /\ result' = NoError
    /\ UNCHANGED <<specFiles, seams, listed, earlier, peer, updater>>

\* The body of SpecCheckWithConcurrency(version, fn, mc) up to its first
\* invocation of the user function.
CallBody(version, fn, mc, gomaxprocs) ==
    /\ pc = "idle"
    /\ LET loaded == LoadTestCases(specFiles, jsonUnmarshalVar, version)
           n == Len(loaded.cases)
           concurrent == ~IsSequential(mc)
       IN  /\ specVersion' = version
           /\ valid' = isValidFormatVer(version)
           /\ reads' = loaded.reads
           /\ decodes' = loaded.decodes
           /\ yourFunc' = fn
           /\ maxConcurrency' = mc
           /\ testCases' = loaded.cases
           /\ idx' = 0
           /\ gstate' = [i \in 1..n |-> "none"]
           /\ gret' = [i \in 1..n |-> NoError]
           /\ invoked' = [i \in 1..n |-> 0]
           /\ gerr' = NoError
           /\ cancelled' = FALSE
           /\ firstFail' = 0
           /\ IF loaded.err = NoError /\ concurrent
              THEN /\ limit' = ResolveLimit(mc, gomaxprocs)
                   /\ procs' = IF mc = 0 THEN gomaxprocs ELSE 0
              ELSE /\ limit' = 0
                   /\ procs' = 0
           /\ IF loaded.err # NoError
              THEN pc' = "done" /\ result' = loaded.err
              ELSE IF ~concurrent
              THEN /\ pc' = IF n = 0 THEN "done" ELSE "seq"
                   /\ result' = NoError
              ELSE /\ pc' = IF n = 0 THEN "wait" ELSE "dispatch"
                   /\ result' = NoError
    /\ UNCHANGED <<specFiles, seams, listed, earlier, peer, updater>>

\* A call of SpecCheckWithConcurrency(version, fn, mc).
Call(version, fn, mc, gomaxprocs) ==
    /\ CallBody(version, fn, mc, gomaxprocs)
    /\ entry' = "SpecCheckWithConcurrency"

\* A call of SpecCheck(version, fn): SpecCheckWithConcurrency with the
\* default concurrency.
SpecCheck(version, fn, gomaxprocs) ==
    /\ CallBody(version, fn, defaultConcurrency, gomaxprocs)
    /\ entry' = "SpecCheck"

\* ------------------------------------------------------------------------
\*  Sequential mode (maxConcurrency = -1), lines 100-109
\* ------------------------------------------------------------------------

\* the loop reaches fixture idx+1 and calls yourFunc
SeqBegin ==
    /\ pc = "seq"
    /\ idx < NumCases
    /\ idx' = idx + 1
    /\ invoked' = [invoked EXCEPT ![idx + 1] = @ + 1]
    /\ pc' = "seqRunning"
    /\ UNCHANGED <<seams, obs, specFiles, specVersion, yourFunc, maxConcurrency, testCases,
                   limit, procs, gstate, gret, gerr, cancelled, result, firstFail>>

\* a loop that notes the error but goes on to the next fixture
SeqReturn_NoShortCircuit ==
    /\ pc = "seqRunning"
    /\ LET err == runSingleTest(testCases[idx], yourFunc[testCases[idx].Markdown])
           first == IF result # NoError THEN result ELSE Wrap(err, msgTestFailed, <<>>)
       IN  /\ pc' = IF idx = NumCases THEN "done" ELSE "seq"
           /\ result' = first
    /\ UNCHANGED <<seams, obs, specFiles, specVersion, yourFunc, maxConcurrency, testCases,
                   idx, limit, procs, gstate, gret, gerr, cancelled, invoked,
                   firstFail>>

\* a loop that runs a failed fixture a second time
SeqReturn_RetriesOnce ==
    /\ pc = "seqRunning"
    /\ LET err == runSingleTest(testCases[idx], yourFunc[testCases[idx].Markdown]) IN
       IF err # NoError /\ invoked[idx] < 2
       THEN /\ pc' = "seqRunning"
            /\ invoked' = [invoked EXCEPT ![idx] = @ + 1]
            /\ result' = NoError
       ELSE IF err # NoError
       THEN pc' = "done" /\ result' = Wrap(err, msgTestFailed, <<>>)
                        /\ UNCHANGED invoked
       ELSE /\ pc' = IF idx = NumCases THEN "done" ELSE "seq"
            /\ result' = NoError
            /\ UNCHANGED invoked
    /\ UNCHANGED <<seams, obs, specFiles, specVersion, yourFunc, maxConcurrency, testCases,
                   idx, limit, procs, gstate, gret, gerr, cancelled, firstFail>>

\* yourFunc returns; runSingleTest gives the verdict; the loop returns on
\* the first error and after the last fixture
SeqReturn ==
    /\ pc = "seqRunning"
    /\ LET err == runSingleTest(testCases[idx], yourFunc[testCases[idx].Markdown]) IN
       IF err # NoError
       THEN pc' = "done" /\ result' = Wrap(err, msgTestFailed, <<>>)
       ELSE /\ pc' = IF idx = NumCases THEN "done" ELSE "seq"
            /\ result' = NoError
    /\ UNCHANGED <<seams, obs, specFiles, specVersion, yourFunc, maxConcurrency, testCases,
                   idx, limit, procs, gstate, gret, gerr, cancelled, invoked,
                   firstFail>>

\* ------------------------------------------------------------------------
\*  Concurrent mode: runTestsConcurrently, lines 224-240
\* ------------------------------------------------------------------------

\* a dispatch loop that stops one fixture early
Dispatch_StopsEarly ==
    /\ pc = "dispatch"
    /\ idx < NumCases
    /\ limit < 0 \/ Cardinality(Active) < limit
    /\ idx' = idx + 1
    /\ gstate' = [gstate EXCEPT ![idx + 1] =
                      IF idx + 1 = NumCases /\ NumCases > 1 THEN "none" ELSE "spawned"]
    /\ pc' = IF idx + 1 = NumCases THEN "wait" ELSE "dispatch"
    /\ UNCHANGED <<seams, obs, specFiles, specVersion, yourFunc, maxConcurrency, testCases,
                   limit, procs, gret, gerr, cancelled, result, invoked, firstFail>>

\* a dispatch loop that stops once a failure is recorded
Dispatch_StopsOnFailure ==
    /\ pc = "dispatch"
    /\ idx < NumCases
    /\ IF gerr # NoError
       THEN pc' = "wait" /\ UNCHANGED <<idx, gstate>>
       ELSE /\ limit < 0 \/ Cardinality(Active) < limit
            /\ idx' = idx + 1
            /\ gstate' = [gstate EXCEPT ![idx + 1] = "spawned"]
            /\ pc' = IF idx + 1 = NumCases THEN "wait" ELSE "dispatch"
    /\ UNCHANGED <<seams, obs, specFiles, specVersion, yourFunc, maxConcurrency, testCases,
                   limit, procs, gret, gerr, cancelled, result, invoked, firstFail>>

\* errGroup.Go for fixture idx+1: blocks while the semaphore is full, then
\* starts the goroutine.  The loop does not consult the group's context.
Dispatch ==
    /\ pc = "dispatch"
    /\ idx < NumCases
    /\ limit < 0 \/ Cardinality(Active) < limit
    /\ idx' = idx + 1
    /\ gstate' = [gstate EXCEPT ![idx + 1] = "spawned"]
    /\ pc' = IF idx + 1 = NumCases THEN "wait" ELSE "dispatch"
    /\ UNCHANGED <<seams, obs, specFiles, specVersion, yourFunc, maxConcurrency, testCases,
                   limit, procs, gret, gerr, cancelled, result, invoked, firstFail>>

\* goroutine i runs its closure: runSingleTest calls yourFunc
Begin(i) ==
    /\ gstate[i] = "spawned"
    /\ gstate' = [gstate EXCEPT ![i] = "running"]
    /\ invoked' = [invoked EXCEPT ![i] = @ + 1]
    /\ UNCHANGED <<seams, obs, specFiles, pc, specVersion, yourFunc, maxConcurrency, testCases,
                   idx, limit, procs, gret, gerr, cancelled, result, firstFail>>

\* a closure that reads the loop variable of the dispatcher, not its own copy
Return_SharedLoopVar(i) ==
    /\ gstate[i] = "running"
    /\ gstate' = [gstate EXCEPT ![i] = "returned"]
    /\ gret' = [gret EXCEPT ![i] =
                    runSingleTest(testCases[idx], yourFunc[testCases[i].Markdown])]
    /\ UNCHANGED <<seams, obs, specFiles, pc, specVersion, yourFunc, maxConcurrency, testCases,
                   idx, limit, procs, gerr, cancelled, result, invoked, firstFail>>

\* yourFunc returns in goroutine i; runSingleTest returns its verdict
Return(i) ==
    /\ gstate[i] = "running"
    /\ gstate' = [gstate EXCEPT ![i] = "returned"]
    /\ gret' = [gret EXCEPT ![i] =
                    runSingleTest(testCases[i], yourFunc[testCases[i].Markdown])]
    /\ UNCHANGED <<seams, obs, specFiles, pc, specVersion, yourFunc, maxConcurrency, testCases,
                   idx, limit, procs, gerr, cancelled, result, invoked, firstFail>>

\* a slot that every failure overwrites
errOnce_Overwrite(slot, err) == err

\* errGroup's errOnce.Do: only the first error is stored
errOnce(slot, err) == IF slot = NoError THEN err ELSE slot

\* goroutine i hands its verdict to the group: a non-nil error goes through
\* errOnce, which stores it and cancels the context
Record(i) ==
    /\ gstate[i] = "returned"
    /\ gstate' = [gstate EXCEPT ![i] = "recorded"]
    /\ IF gret[i] # NoError
       THEN /\ gerr' = errOnce(gerr, gret[i])
            /\ cancelled' = TRUE
            /\ firstFail' = IF firstFail = 0 THEN i ELSE firstFail
       ELSE UNCHANGED <<gerr, cancelled, firstFail>>
    /\ UNCHANGED <<seams, obs, specFiles, pc, specVersion, yourFunc, maxConcurrency, testCases,
                   idx, limit, procs, gret, result, invoked>>

\* a goroutine that gives its token back only when its fixture passed
Done_LeaksOnFailure(i) ==
    /\ gstate[i] = "recorded"
    /\ gret[i] = NoError
    /\ gstate' = [gstate EXCEPT ![i] = "finished"]
    /\ UNCHANGED <<seams, obs, specFiles, pc, specVersion, yourFunc, maxConcurrency, testCases,
                   idx, limit, procs, gret, gerr, cancelled, result, invoked,
                   firstFail>>

\* the deferred g.done() of goroutine i: releases the semaphore token and
\* the wait group
Done(i) ==
    /\ gstate[i] = "recorded"
    /\ gstate' = [gstate EXCEPT ![i] = "finished"]
    /\ UNCHANGED <<seams, obs, specFiles, pc, specVersion, yourFunc, maxConcurrency, testCases,
                   idx, limit, procs, gret, gerr, cancelled, result, invoked,
                   firstFail>>

\* a Wait that waits for nothing
Outstanding_None(states) == {}

\* the goroutines errGroup.Wait waits for
Outstanding(states) == {i \in DOMAIN states : states[i] \notin {"none", "finished"}}

\* a Wait whose result is returned as it is
Wait_Unwrapped ==
    /\ pc = "wait"
    /\ Outstanding(gstate) = {}
    /\ pc' = "done"
    /\ cancelled' = TRUE
    /\ result' = gerr
    /\ UNCHANGED <<seams, obs, specFiles, specVersion, yourFunc, maxConcurrency, testCases,
                   idx, limit, procs, gstate, gret, gerr, invoked, firstFail>>

\* errGroup.Wait() returns once the wait group is empty; the result is
\* wrapped (nil stays nil)
Wait ==
    /\ pc = "wait"
    /\ Outstanding(gstate) = {}
    /\ pc' = "done"
    /\ cancelled' = TRUE
    /\ result' = Wrap(gerr, msgConcurrently, <<>>)
    /\ UNCHANGED <<seams, obs, specFiles, specVersion, yourFunc, maxConcurrency, testCases,
                   idx, limit, procs, gstate, gret, gerr, invoked, firstFail>>

\* The caller has the returned error; the arguments, the decoded fixtures
\* and the group of the finished call are dropped.
FinishBody ==
    /\ pc = "done"
    /\ pc' = "idle"
    /\ specVersion' = <<>>
    /\ yourFunc' = <<>>
    /\ maxConcurrency' = 0
    /\ testCases' = <<>>
    /\ idx' = 0
    /\ limit' = 0
    /\ procs' = 0
    /\ gstate' = <<>>
    /\ gret' = <<>>
    /\ gerr' = NoError
    /\ cancelled' = FALSE
    /\ result' = NoError
    /\ invoked' = <<>>
    /\ firstFail' = 0
    /\ entry' = "none"
    /\ reads' = <<>>
    /\ decodes' = 0
    /\ listed' = NilList
    /\ valid' = FALSE
    /\ UNCHANGED <<specFiles, seams, peer, updater>>

\* the return to a caller that keeps no note of the outcome
Finish ==
    /\ FinishBody
    /\ UNCHANGED earlier

\* the return to a caller that notes whether the call gave an error
FinishNoting ==
    /\ FinishBody
    /\ earlier' = IF result = NoError THEN "passed" ELSE "failed"

\* ------------------------------------------------------------------------
\*  Specification
\* ------------------------------------------------------------------------

\* the fixtures a call of version would load, to choose a user function for
CasesOf(version) == LoadTestCases(specFiles, jsonUnmarshalVar, version).cases

Concurrencies == (0 - 2)..MaxConcurrency

CallAny ==
    \E version \in Versions :
        \E fn \in UserFuncs(CasesOf(version)) :
            \E mc \in Concurrencies :
                \E gomaxprocs \in 1..MaxProcs :
                    /\ (mc # 0 => gomaxprocs = 1)
                    /\ Call(version, fn, mc, gomaxprocs)

Next ==
    \/ CallAny
    \/ SeqBegin
    \/ SeqReturn
    \/ Dispatch
    \/ \E i \in DOMAIN gstate : Begin(i)
    \/ \E i \in DOMAIN gstate : Return(i)
    \/ \E i \in DOMAIN gstate : Record(i)
    \/ \E i \in DOMAIN gstate : Done(i)
    \/ Wait
    \/ Finish

Spec == Init /\ [][Next]_vars

\* ------------------------------------------------------------------------
\*  The public functions with the test seams and every kind of user function
\* ------------------------------------------------------------------------

\* Largest number of fixtures when every kind of user function is tried.
MaxAPIFixtures == 2

\* valid versions that differ from "v0.30" by a suffix only
strV0300 == <<"v", "0", ".", "3", "0", ".", "0">>
strV03 == <<"v", "0", ".", "3">>

VersionsAPI == Versions \cup {strV0300, strV03}

InitAPI ==
    /\ \E n \in 0..MaxAPIFixtures : specFiles = Corpus(n)
    /\ pc = "idle"
    /\ specVersion = <<>>
    /\ yourFunc = <<>>
    /\ maxConcurrency = 0
    /\ testCases = <<>>
    /\ idx = 0
    /\ limit = 0
    /\ procs = 0
    /\ gstate = <<>>
    /\ gret = <<>>
    /\ gerr = NoError
    /\ cancelled = FALSE
    /\ result = NoError
    /\ invoked = <<>>
    /\ firstFail = 0
    /\ jsonUnmarshalVar = UnmarshalReal
    /\ nameFileSpecList = strSpecList
    /\ entry = "none"
    /\ reads = <<>>
    /\ decodes = 0
    /\ listed = NilList
    /\ valid = FALSE
    /\ earlier = "none"
    /\ peer = NoPeer
    /\ updater = NoUpdater

\* the fixtures of the fixture file of version, whatever the decoder is
\* patched to: the inputs a caller has user functions for
FileCasesOf(version) == LoadTestCases(specFiles, UnmarshalReal, version).cases

CallAnyAPI ==
    \E version \in VersionsAPI :
        \E fn \in UserFuncsOf(FileCasesOf(version), FnKindsAll) :
            \E mc \in Concurrencies :
                \E gomaxprocs \in 1..MaxProcs :
                    /\ (mc # 0 => gomaxprocs = 1)
                    /\ Call(version, fn, mc, gomaxprocs)

SpecCheckAny ==
    \E version \in VersionsAPI :
        \E fn \in UserFuncsOf(FileCasesOf(version), FnKindsAll) :
            \E gomaxprocs \in 1..MaxProcs :
                SpecCheck(version, fn, gomaxprocs)

\* a test patches var jsonUnmarshal, or restores it, between two calls
PatchUnmarshal ==
    /\ pc = "idle"
    /\ jsonUnmarshalVar' =
           IF jsonUnmarshalVar = UnmarshalReal THEN UnmarshalForced ELSE UnmarshalReal
    /\ UNCHANGED <<specFiles, pc, specVersion, yourFunc, maxConcurrency, testCases,
                   idx, limit, procs, gstate, gret, gerr, cancelled, result,
                   invoked, firstFail, nameFileSpecList, obs>>

NextAPI ==
    \/ CallAnyAPI
    \/ SpecCheckAny
    \/ PatchUnmarshal
    \/ SeqBegin
    \/ SeqReturn
    \/ Dispatch
    \/ \E i \in DOMAIN gstate : Begin(i)
    \/ \E i \in DOMAIN gstate : Return(i)
    \/ \E i \in DOMAIN gstate : Record(i)
    \/ \E i \in DOMAIN gstate : Done(i)
    \/ Wait
    \/ Finish

SpecAPI == InitAPI /\ [][NextAPI]_vars

\* ------------------------------------------------------------------------
\*  ListVersion, lines 115-141
\* ------------------------------------------------------------------------

\* Largest number of entries of the version index.
MaxIndex == 3

\* the versions and dates the entries of an index are drawn from
IndexVersions == {"v0.31.2", "v0.30", "v0.13"}

DateOf(version) ==
    IF version = "v0.31.2" THEN "2024-01-28"
    ELSE IF version = "v0.30" THEN "2021-06-19"
    ELSE "2010-01-01"

\* the indexes a store can hold: any order, repeated versions allowed
Indexes ==
    UNION {{[i \in 1..n |-> IndexEntry(vs[i], DateOf(vs[i]))] :
                vs \in [1..n -> IndexVersions]} : n \in 0..MaxIndex}

\* the versions in the opposite order
VersionsOf_Reversed(objList) ==
    [i \in 1..Len(objList) |-> objList[Len(objList) + 1 - i].Version]

\* result[i] = obj.Version for i, obj := range objList
VersionsOf(objList) == [i \in 1..Len(objList) |-> objList[i].Version]

\* a ListVersion that does not look at the decoder's error
ListVersionResult_IgnoresDecodeError(files, nameFile, impl) ==
    LET jsonList == loadFile(files, nameFile)
        dec == jsonUnmarshal(impl, jsonList.data)
    IN  IF jsonList.err # NoError
        THEN [list |-> NilList, err |-> Wrap(jsonList.err, msgReadList, <<>>),
              decodes |-> 0]
        ELSE [list |-> ListOf(VersionsOf(dec.cases)), err |-> NoError, decodes |-> 1]

\* what ListVersion returns, and how often it called the decoder
ListVersionResult(files, nameFile, impl) ==
    LET jsonList == loadFile(files, nameFile)
        dec == jsonUnmarshal(impl, jsonList.data)
    IN  IF jsonList.err # NoError
        THEN [list |-> NilList, err |-> Wrap(jsonList.err, msgReadList, <<>>),
              decodes |-> 0]
        ELSE IF dec.err # NoError
        THEN [list |-> NilList, err |-> Wrap(dec.err, msgParseList, <<>>),
              decodes |-> 1]
        ELSE [list |-> ListOf(VersionsOf(dec.cases)), err |-> NoError, decodes |-> 1]

\* a ListVersion that empties the index it has read
ListVersion_ConsumesIndex ==
    /\ pc = "idle"
    /\ LET ret == ListVersionResult(specFiles, nameFileSpecList, jsonUnmarshalVar)
       IN  /\ listed' = ret.list
           /\ result' = ret.err
           /\ decodes' = ret.decodes
    /\ specFiles' = [name \in DOMAIN specFiles |->
                        IF name = nameFileSpecList THEN IndexFile(<<>>)
                        ELSE specFiles[name]]
    /\ reads' = <<nameFileSpecList>>
    /\ entry' = "ListVersion"
    /\ pc' = "done"
    /\ UNCHANGED <<seams, specVersion, yourFunc, maxConcurrency,
                   testCases, idx, limit, procs, gstate, gret, gerr, cancelled,
                   invoked, firstFail, valid, earlier, peer, updater>>

\* A call of ListVersion().
ListVersion ==
    /\ pc = "idle"
    /\ LET ret == ListVersionResult(specFiles, nameFileSpecList, jsonUnmarshalVar)
       IN  /\ listed' = ret.list
           /\ result' = ret.err
           /\ decodes' = ret.decodes
    /\ reads' = <<nameFileSpecList>>
    /\ entry' = "ListVersion"
    /\ pc' = "done"
    /\ UNCHANGED <<specFiles, seams, specVersion, yourFunc, maxConcurrency,
                   testCases, idx, limit, procs, gstate, gret, gerr, cancelled,
                   invoked, firstFail, valid, earlier, peer, updater>>

\* a test patches var nameFileSpecList, or restores it, between two calls
PatchListName ==
    /\ pc = "idle"
    /\ nameFileSpecList' =
           IF nameFileSpecList = strSpecList THEN strUnknown ELSE strSpecList
    /\ UNCHANGED <<specFiles, pc, specVersion, yourFunc, maxConcurrency, testCases,
                   idx, limit, procs, gstate, gret, gerr, cancelled, result,
                   invoked, firstFail, jsonUnmarshalVar, obs>>

InitList ==
    /\ \E index \in Indexes : specFiles = CorpusWith(1, index)
    /\ pc = "idle"
    /\ specVersion = <<>>
    /\ yourFunc = <<>>
    /\ maxConcurrency = 0
    /\ testCases = <<>>
    /\ idx = 0
    /\ limit = 0
    /\ procs = 0
    /\ gstate = <<>>
    /\ gret = <<>>
    /\ gerr = NoError
    /\ cancelled = FALSE
    /\ result = NoError
    /\ invoked = <<>>
    /\ firstFail = 0
    /\ jsonUnmarshalVar = UnmarshalReal
    /\ nameFileSpecList = strSpecList
    /\ entry = "none"
    /\ reads = <<>>
    /\ decodes = 0
    /\ listed = NilList
    /\ valid = FALSE
    /\ earlier = "none"
    /\ peer = NoPeer
    /\ updater = NoUpdater

NextList ==
    \/ ListVersion
    \/ PatchUnmarshal
    \/ PatchListName
    \/ Finish

SpecList == InitList /\ [][NextList]_vars

\* ------------------------------------------------------------------------
\*  One call after another
\* ------------------------------------------------------------------------

\* Largest number of fixtures when calls follow one another.
MaxCallFixtures == 1

\* a store whose fixture file of v0.30 is not JSON
CorpusMalformed ==
    [name \in DOMAIN Corpus(0) |->
        IF name = nameFileSpec(strV030) THEN [json |-> FALSE, cases |-> <<>>]
        ELSE Corpus(0)[name]]

InitCalls ==
    /\ \/ \E n \in 0..MaxCallFixtures : specFiles = Corpus(n)
       \/ specFiles = CorpusMalformed
    /\ pc = "idle"
    /\ specVersion = <<>>
    /\ yourFunc = <<>>
    /\ maxConcurrency = 0
    /\ testCases = <<>>
    /\ idx = 0
    /\ limit = 0
    /\ procs = 0
    /\ gstate = <<>>
    /\ gret = <<>>
    /\ gerr = NoError
    /\ cancelled = FALSE
    /\ result = NoError
    /\ invoked = <<>>
    /\ firstFail = 0
    /\ jsonUnmarshalVar = UnmarshalReal
    /\ nameFileSpecList = strSpecList
    /\ entry = "none"
    /\ reads = <<>>
    /\ decodes = 0
    /\ listed = NilList
    /\ valid = FALSE
    /\ earlier = "none"
    /\ peer = NoPeer
    /\ updater = NoUpdater

\* a call in sequential mode or with the default concurrency
CallAnyCalls ==
    \E version \in Versions :
        \E fn \in UserFuncs(FileCasesOf(version)) :
            \E mc \in {noConcurrency, defaultConcurrency} :
                \E gomaxprocs \in 1..MaxProcs :
                    /\ (mc # 0 => gomaxprocs = 1)
                    /\ Call(version, fn, mc, gomaxprocs)

NextCalls ==
    \/ CallAnyCalls
    \/ ListVersion
    \/ PatchUnmarshal
    \/ SeqBegin
    \/ SeqReturn
    \/ Dispatch
    \/ \E i \in DOMAIN gstate : Begin(i)
    \/ \E i \in DOMAIN gstate : Return(i)
    \/ \E i \in DOMAIN gstate : Record(i)
    \/ \E i \in DOMAIN gstate : Done(i)
    \/ Wait
    \/ FinishNoting

SpecCalls == InitCalls /\ [][NextCalls]_vars

\* ------------------------------------------------------------------------
\*  The scheduler under fair scheduling
\* ------------------------------------------------------------------------

\* Largest number of fixtures when the behaviours are checked to the end.
MaxLiveFixtures == 2

InitLive ==
    /\ \E n \in 0..MaxLiveFixtures : specFiles = Corpus(n)
    /\ pc = "idle"
    /\ specVersion = <<>>
    /\ yourFunc = <<>>
    /\ maxConcurrency = 0
    /\ testCases = <<>>
    /\ idx = 0
    /\ limit = 0
    /\ procs = 0
    /\ gstate = <<>>
    /\ gret = <<>>
    /\ gerr = NoError
    /\ cancelled = FALSE
    /\ result = NoError
    /\ invoked = <<>>
    /\ firstFail = 0
    /\ jsonUnmarshalVar = UnmarshalReal
    /\ nameFileSpecList = strSpecList
    /\ entry = "none"
    /\ reads = <<>>
    /\ decodes = 0
    /\ listed = NilList
    /\ valid = FALSE
    /\ earlier = "none"
    /\ peer = NoPeer
    /\ updater = NoUpdater

\* the steps of goroutine i, for every i (there may be no goroutine i)
GoBegin(i) == i \in DOMAIN gstate /\ Begin(i)
GoReturn(i) == i \in DOMAIN gstate /\ Return(i)
GoRecord(i) == i \in DOMAIN gstate /\ Record(i)
GoDone(i) == i \in DOMAIN gstate /\ Done(i)

NextLive ==
    \/ CallAny
    \/ SeqBegin
    \/ SeqReturn
    \/ Dispatch
    \/ \E i \in 1..MaxLiveFixtures : GoBegin(i)
    \/ \E i \in 1..MaxLiveFixtures : GoReturn(i)
    \/ \E i \in 1..MaxLiveFixtures : GoRecord(i)
    \/ \E i \in 1..MaxLiveFixtures : GoDone(i)
    \/ Wait
    \/ Finish

\* what the Go scheduler guarantees: a loop that can go on goes on, a
\* goroutine that can run runs, a Wait that can return returns. Nothing is
\* assumed of the user function.
FairScheduling ==
    /\ WF_vars(SeqBegin)
    /\ WF_vars(Dispatch)
    /\ WF_vars(Wait)
    /\ \A i \in 1..MaxLiveFixtures :
          WF_vars(GoBegin(i)) /\ WF_vars(GoRecord(i)) /\ WF_vars(GoDone(i))

SpecLive == InitLive /\ [][NextLive]_vars /\ FairScheduling

\* ------------------------------------------------------------------------
\*  Two calls at the same time
\* ------------------------------------------------------------------------

\* Largest number of fixtures when two calls run at the same time.
MaxTwoFixtures == 2

\* everything but the second call
own == <<specFiles, pc, specVersion, yourFunc, maxConcurrency, testCases,
         idx, limit, procs, gstate, gret, gerr, cancelled, result, invoked,
         firstFail, seams, entry, reads, decodes, listed, valid, earlier,
         updater>>

PeerNumCases == Len(peer.testCases)

PeerActive ==
    {i \in DOMAIN peer.gstate :
        peer.gstate[i] \in {"spawned", "running", "returned", "recorded"}}

\* the second call, SpecCheckWithConcurrency("v0.30", fn, mc) with mc >= 1,
\* up to its first errGroup.Go: its own testCases, its own errGroup
PeerCall(fn, mc) ==
    /\ peer.pc = "idle"
    /\ LET loaded == LoadTestCases(specFiles, jsonUnmarshalVar, strV030)
           n == Len(loaded.cases)
       IN  peer' =
             IF loaded.err # NoError
             THEN [NoPeer EXCEPT !.pc = "done", !.result = loaded.err]
             ELSE [pc |-> IF n = 0 THEN "wait" ELSE "dispatch",
                   yourFunc |-> fn,
                   testCases |-> loaded.cases,
                   idx |-> 0,
                   limit |-> ResolveLimit(mc, 1),
                   gstate |-> [i \in 1..n |-> "none"],
                   gret |-> [i \in 1..n |-> NoError],
                   gerr |-> NoError,
                   result |-> NoError,
                   invoked |-> [i \in 1..n |-> 0]]
    /\ UNCHANGED own

\* errGroup.Go of the second call
PeerDispatch ==
    /\ peer.pc = "dispatch"
    /\ peer.idx < PeerNumCases
    /\ peer.limit < 0 \/ Cardinality(PeerActive) < peer.limit
    /\ peer' = [peer EXCEPT
                  !.idx = @ + 1,
                  !.gstate[peer.idx + 1] = "spawned",
                  !.pc = IF peer.idx + 1 = PeerNumCases THEN "wait" ELSE "dispatch"]
    /\ UNCHANGED own

PeerBegin(i) ==
    /\ peer.gstate[i] = "spawned"
    /\ peer' = [peer EXCEPT !.gstate[i] = "running", !.invoked[i] = @ + 1]
    /\ UNCHANGED own

PeerReturn(i) ==
    /\ peer.gstate[i] = "running"
    /\ peer' = [peer EXCEPT
                  !.gstate[i] = "returned",
                  !.gret[i] = runSingleTest(peer.testCases[i],
                                            peer.yourFunc[peer.testCases[i].Markdown])]
    /\ UNCHANGED own

\* a group shared by the calls: the failure also goes to the other call's slot
PeerRecord_SharedGroup(i) ==
    /\ peer.gstate[i] = "returned"
    /\ peer' = [peer EXCEPT
                  !.gstate[i] = "recorded",
                  !.gerr = IF peer.gret[i] # NoError
                           THEN errOnce(peer.gerr, peer.gret[i]) ELSE @]
    /\ gerr' = IF peer.gret[i] # NoError THEN errOnce(gerr, peer.gret[i]) ELSE gerr
    /\ UNCHANGED <<specFiles, pc, specVersion, yourFunc, maxConcurrency, testCases,
                   idx, limit, procs, gstate, gret, cancelled, result, invoked,
                   firstFail, seams, entry, reads, decodes, listed, valid, earlier,
                   updater>>

\* the verdict goes through the errOnce of the second call's own group
PeerRecord(i) ==
    /\ peer.gstate[i] = "returned"
    /\ peer' = [peer EXCEPT
                  !.gstate[i] = "recorded",
                  !.gerr = IF peer.gret[i] # NoError
                           THEN errOnce(peer.gerr, peer.gret[i]) ELSE @]
    /\ UNCHANGED own

PeerDone(i) ==
    /\ peer.gstate[i] = "recorded"
    /\ peer' = [peer EXCEPT !.gstate[i] = "finished"]
    /\ UNCHANGED own

PeerWait ==
    /\ peer.pc = "wait"
    /\ Outstanding(peer.gstate) = {}
    /\ peer' = [peer EXCEPT !.pc = "done",
                            !.result = Wrap(peer.gerr, msgConcurrently, <<>>)]
    /\ UNCHANGED own

\* the second caller has its error
PeerFinish ==
    /\ peer.pc = "done"
    /\ peer' = NoPeer
    /\ UNCHANGED own

\* the user functions that treat every fixture alike
UniformFuncs(cases) ==
    {[md \in {cases[i].Markdown : i \in DOMAIN cases} |->
        FnResult(cases[CHOOSE i \in DOMAIN cases : cases[i].Markdown = md], kind)] :
            kind \in {"right", "wrong"}}

InitTwo ==
    /\ \E n \in 0..MaxTwoFixtures : specFiles = Corpus(n)
    /\ pc = "idle"
    /\ specVersion = <<>>
    /\ yourFunc = <<>>
    /\ maxConcurrency = 0
    /\ testCases = <<>>
    /\ idx = 0
    /\ limit = 0
    /\ procs = 0
    /\ gstate = <<>>
    /\ gret = <<>>
    /\ gerr = NoError
    /\ cancelled = FALSE
    /\ result = NoError
    /\ invoked = <<>>
    /\ firstFail = 0
    /\ jsonUnmarshalVar = UnmarshalReal
    /\ nameFileSpecList = strSpecList
    /\ entry = "none"
    /\ reads = <<>>
    /\ decodes = 0
    /\ listed = NilList
    /\ valid = FALSE
    /\ earlier = "none"
    /\ peer = NoPeer
    /\ updater = NoUpdater

CallAnyTwo ==
    \E fn \in UserFuncsOf(FileCasesOf(strV030), {"right", "wrong"}) :
        \E mc \in 1..MaxConcurrency :
            Call(strV030, fn, mc, 1)

PeerCallAny ==
    \E fn \in UniformFuncs(FileCasesOf(strV030)) :
        PeerCall(fn, MaxConcurrency)

NextTwo ==
    \/ CallAnyTwo
    \/ Dispatch
    \/ \E i \in DOMAIN gstate : Begin(i)
    \/ \E i \in DOMAIN gstate : Return(i)
    \/ \E i \in DOMAIN gstate : Record(i)
    \/ \E i \in DOMAIN gstate : Done(i)
    \/ Wait
    \/ Finish
    \/ PeerCallAny
    \/ PeerDispatch
    \/ \E i \in DOMAIN peer.gstate : PeerBegin(i)
    \/ \E i \in DOMAIN peer.gstate : PeerReturn(i)
    \/ \E i \in DOMAIN peer.gstate : PeerRecord(i)
    \/ \E i \in DOMAIN peer.gstate : PeerDone(i)
    \/ PeerWait
    \/ PeerFinish

SpecTwo == InitTwo /\ [][NextTwo]_vars

\* ------------------------------------------------------------------------
\*  The version-syntax validator on its own
\* ------------------------------------------------------------------------

\* Largest number of dot-separated parts of a version string tried.
MaxVerParts == 4

\* what stands before the numbers, between the dots, and after the numbers
\* in the version strings tried
VerPrefixes == {<<>>, <<"v">>, <<"v", "v">>}
VerNumerals == {<<>>, <<"0">>, <<"1">>, <<"1", "0">>, <<"0", "1">>}
VerSuffixes ==
    {<<>>, <<"\n">>, <<" ">>, <<"-">>, <<"-", "r", "c">>, <<"-", "0", "1">>,
     <<"+", "b">>, <<"-", "a", "+", "b", "-", "1">>}

\* parts joined by dots
RECURSIVE JoinDots(_)
JoinDots(parts) ==
    IF parts = <<>> THEN <<>>
    ELSE IF Len(parts) = 1 THEN parts[1]
    ELSE parts[1] \o <<".">> \o JoinDots(Tail(parts))

\* the strings of Test_isValidFormatVer that the scheme does not build
VerExtras ==
    {strLatest, strLatest \o <<"\n">>, <<"L", "a", "t", "e", "s", "t">>,
     <<"v", "e", "r", "s", "i", "o", "n", " ", "1", ".", "1", "4">>,
     <<"v", "v", "v", "v", "1", ".", "1", "4">>, <<" ", "v", "1">>}

VerInputs ==
    VerExtras \cup
    {pre \o JoinDots(parts) \o suf :
        pre \in VerPrefixes,
        parts \in UNION {[1..n -> VerNumerals] : n \in 0..MaxVerParts},
        suf \in VerSuffixes}

InitVer ==
    /\ specFiles = Corpus(0)
    /\ pc = "idle"
    /\ specVersion \in VerInputs
    /\ yourFunc = <<>>
    /\ maxConcurrency = 0
    /\ testCases = <<>>
    /\ idx = 0
    /\ limit = 0
    /\ procs = 0
    /\ gstate = <<>>
    /\ gret = <<>>
    /\ gerr = NoError
    /\ cancelled = FALSE
    /\ result = NoError
    /\ invoked = <<>>
    /\ firstFail = 0
    /\ jsonUnmarshalVar = UnmarshalReal
    /\ nameFileSpecList = strSpecList
    /\ entry = "none"
    /\ reads = <<>>
    /\ decodes = 0
    /\ listed = NilList
    /\ valid = FALSE
    /\ earlier = "none"
    /\ peer = NoPeer
    /\ updater = NoUpdater

\* isValidFormatVer(specVersion) is called and returns
ValidateVer ==
    /\ pc = "idle"
    /\ entry = "none"
    /\ valid' = isValidFormatVer(specVersion)
    /\ entry' = "isValidFormatVer"
    /\ pc' = "done"
    /\ UNCHANGED <<specFiles, specVersion, yourFunc, maxConcurrency, testCases,
                   idx, limit, procs, gstate, gret, gerr, cancelled, result,
                   invoked, firstFail, seams, reads, decodes, listed, earlier,
                   peer, updater>>

NextVer == ValidateVer

SpecVer == InitVer /\ [][NextVer]_vars

\* ------------------------------------------------------------------------
\*  The fixture updater (_updater/download_specs.go, package main)
\* ------------------------------------------------------------------------

\* Largest number of list items of the spec page tried.
MaxItems == 2

\* const currentHash = "cbf6a478e79c8f79"
currentHash == "cbf6a478e79c8f79"

\* the "%x" of another 64-bit hash
otherHash == "9d2f0e4a71c3b865"

\* const urlSpecList = "https://spec.commonmark.org/", without the last slash
urlSpecList == "https://spec.commonmark.org"

\* const minVerSpec = "0.13"
minVerSpec == <<"0", ".", "1", "3">>

\* a string is the sequence of its characters
WhiteSpace == {" ", "\t", "\n", "\r"}

\* strings.TrimSpace(s)
RECURSIVE stringsTrimSpace(_)
stringsTrimSpace(s) ==
    IF s = <<>> THEN s
    ELSE IF Head(s) \in WhiteSpace THEN stringsTrimSpace(Tail(s))
    ELSE IF s[Len(s)] \in WhiteSpace THEN stringsTrimSpace(SubSeq(s, 1, Len(s) - 1))
    ELSE s

\* the value of a decimal numeral
RECURSIVE NumVal(_)
NumVal(s) ==
    IF s = <<>> THEN 0
    ELSE 10 * NumVal(SubSeq(s, 1, Len(s) - 1))
         + (CHOOSE d \in 0..9 :
              <<"0", "1", "2", "3", "4", "5", "6", "7", "8", "9">>[d + 1] = s[Len(s)])

\* x without its tail rest: what a parse step consumed
Consumed(x, rest) == SubSeq(x, 1, Len(x) - Len(rest))

\* semver's parse: the parts of v, a missing minor or patch being "0"
semverParse(v) ==
    LET bad == [ok |-> FALSE, major |-> <<>>, minor |-> <<>>, patch |-> <<>>,
                prerelease |-> <<>>]
        zero == <<"0">>
    IN
    IF v = <<>> \/ Head(v) # "v" THEN bad
    ELSE LET v1 == Tail(v)
             major == parseInt(v1)
             mj == Consumed(v1, major.rest)
         IN
         IF ~major.ok THEN bad
         ELSE IF major.rest = <<>>
              THEN [ok |-> TRUE, major |-> mj, minor |-> zero, patch |-> zero,
                    prerelease |-> <<>>]
         ELSE IF Head(major.rest) # "." THEN bad
         ELSE LET v2 == Tail(major.rest)
                  minor == parseInt(v2)
                  mn == Consumed(v2, minor.rest)
              IN
              IF ~minor.ok THEN bad
              ELSE IF minor.rest = <<>>
                   THEN [ok |-> TRUE, major |-> mj, minor |-> mn, patch |-> zero,
                         prerelease |-> <<>>]
              ELSE IF Head(minor.rest) # "." THEN bad
              ELSE LET v3 == Tail(minor.rest)
                       patch == parseInt(v3)
                       pt == Consumed(v3, patch.rest)
                       v4 == patch.rest
                       pre == IF v4 # <<>> /\ Head(v4) = "-"
                              THEN parsePrerelease(v4)
                              ELSE [ok |-> TRUE, rest |-> v4]
                   IN
                   IF ~patch.ok \/ ~parseSuffix(patch.rest) THEN bad
                   ELSE [ok |-> TRUE, major |-> mj, minor |-> mn, patch |-> pt,
                         prerelease |-> Consumed(v4, pre.rest)]

\* semver's compareInt: the numerals have no leading zeros
compareInt(x, y) ==
    IF NumVal(x) = NumVal(y) THEN 0
    ELSE IF NumVal(x) < NumVal(y) THEN 0 - 1 ELSE 1

\* semver's comparePrerelease for a y without a prerelease, which is what
\* "v" + minVerSpec is: a version with a prerelease comes before it
comparePrerelease(x, y) ==
    IF x = y THEN 0
    ELSE IF x = <<>> THEN 1
    ELSE 0 - 1

\* semver.Compare(v, w)
semverCompare(v, w) ==
    LET pv == semverParse(v)
        pw == semverParse(w)
    IN  IF ~pv.ok /\ ~pw.ok THEN 0
        ELSE IF ~pv.ok THEN 0 - 1
        ELSE IF ~pw.ok THEN 1
        ELSE IF compareInt(pv.major, pw.major) # 0 THEN compareInt(pv.major, pw.major)
        ELSE IF compareInt(pv.minor, pw.minor) # 0 THEN compareInt(pv.minor, pw.minor)
        ELSE IF compareInt(pv.patch, pw.patch) # 0 THEN compareInt(pv.patch, pw.patch)
        ELSE comparePrerelease(pv.prerelease, pw.prerelease)

\* type SpecInfo struct
SpecInfo(version, url, date) ==
    [Version |-> version, URL |-> url, DateEnactment |-> date]

\* An <a> element: its text, and its href split at "/" when it has one.
Link(text, href) == [text |-> text, hasHref |-> TRUE, href |-> href]
Anchor(text) == [text |-> text, hasHref |-> FALSE, href |-> <<>>]

\* A <li> element: its <a> elements in document order, and the
\* parenthesized dates datePattern finds in its text, leftmost first.
ListItem(links, dates) == [links |-> links, dates |-> dates]

str030 == <<"0", ".", "3", "0">>
str012 == <<"0", ".", "1", "2">>
str0312 == <<"0", ".", "3", "1", ".", "2">>
str0130rc == <<"0", ".", "1", "3", ".", "0", "-", "r", "c">>
str0131 == <<"0", ".", "1", "3", ".", "1">>
strPadded == <<" ", "0", ".", "3", "0", "\n">>
strDingus == <<"d", "i", "n", "g", "u", "s">>
strTestCases == <<"t", "e", "s", "t", " ", "c", "a", "s", "e", "s">>

\* the link texts tried, each with the directory its links point into
VersionTexts ==
    {<<str030, "0.30">>, <<minVerSpec, "0.13">>, <<str012, "0.12">>,
     <<str0312, "0.31.2">>, <<str0130rc, "0.13.0-rc">>, <<str0131, "0.13.1">>,
     <<strPadded, "0.30">>, <<strV030, "v0.30">>, <<strDingus, "dingus">>,
     <<<<"1">>, "1">>, <<<<>>, "current">>}

\* <li><a href="/0.30/">0.30</a> (2021-06-19) ... <a href="/0.30/spec.json">
Release(text, dir, dates) ==
    ListItem(<<Link(text, <<"", dir, "">>),
               Link(strTestCases, <<"", dir, "spec.json">>)>>, dates)

ListItems ==
    {Release(t[1], t[2], <<"2021-06-19">>) : t \in VersionTexts}
    \cup {Release(str030, "0.30", <<>>),
          Release(str030, "0.30", <<"2021-06-19", "2021-06-20">>),
          ListItem(<<>>, <<"2021-06-19">>),
          ListItem(<<Link(str030, <<"", "0.30", "">>)>>, <<"2021-06-19">>),
          ListItem(<<Link(str030, <<"", "0.30", "spec.json">>)>>, <<"2021-06-19">>),
          ListItem(<<Link(str030, <<"", "0.30", "">>),
                     Link(strTestCases, <<"spec.json">>)>>, <<"2021-06-19">>),
          ListItem(<<Link(str030, <<"", "0.30", "">>),
                     Link(strTestCases, <<"0.30", "spec.json">>)>>, <<"2021-06-19">>),
          ListItem(<<Anchor(str030), Anchor(strTestCases),
                     Link(strTestCases, <<"", "0.30", "spec.json">>),
                     Link(strTestCases, <<"", "0.29", "spec.json">>)>>,
                   <<"2021-06-19">>)}

\* the documents: their <li> elements in document order
Pages == UNION {[1..n -> ListItems] : n \in 0..MaxItems}

\* strings.HasSuffix(href, "/spec.json")
HasSuffixSpecJSON(href) == Len(href) >= 2 /\ href[Len(href)] = "spec.json"

\* sel.Find("a").EachWithBreak: the first href with the suffix, or ""
RECURSIVE FirstSpecHref(_)
FirstSpecHref(links) ==
    IF links = <<>> THEN <<>>
    ELSE IF Head(links).hasHref /\ HasSuffixSpecJSON(Head(links).href)
         THEN Head(links).href
    ELSE FirstSpecHref(Tail(links))

\* baseURL.ResolveReference(&url.URL{Path: specHref}).String(): the base
\* has the path "/", so a relative path and an absolute one resolve alike
ResolveReference(specHref) ==
    <<urlSpecList>> \o (IF Head(specHref) = "" THEN Tail(specHref) ELSE specHref)

\* a callback that lets the versions before minVerSpec through
EachItem_KeepsOld(sel) ==
    LET version == stringsTrimSpace(IF sel.links = <<>> THEN <<>>
                                    ELSE sel.links[1].text)
        specHref == FirstSpecHref(sel.links)
    IN  IF version = <<>> \/ ~semverIsValid(<<"v">> \o version) THEN <<>>
        ELSE IF Len(sel.dates) = 0 THEN <<>>
        ELSE IF specHref = <<>> THEN <<>>
        ELSE <<SpecInfo(<<"v">> \o version, ResolveReference(specHref),
                        Head(sel.dates))>>

\* the callback of doc.Find("li").Each: what it appends for one <li>
EachItem(sel) ==
    LET version == stringsTrimSpace(IF sel.links = <<>> THEN <<>>
                                    ELSE sel.links[1].text)
        specHref == FirstSpecHref(sel.links)
    IN  IF version = <<>> \/ ~semverIsValid(<<"v">> \o version) THEN <<>>
        ELSE IF semverCompare(<<"v">> \o version, <<"v">> \o minVerSpec) < 0 THEN <<>>
        ELSE IF Len(sel.dates) = 0 THEN <<>>
        ELSE IF specHref = <<>> THEN <<>>
        ELSE <<SpecInfo(<<"v">> \o version, ResolveReference(specHref),
                        Head(sel.dates))>>

\* doc.Find("li").Each over the items from position i on
RECURSIVE EachFrom(_, _)
EachFrom(doc, i) ==
    IF i > Len(doc) THEN <<>> ELSE EachItem(doc[i]) \o EachFrom(doc, i + 1)

\* func extractSpecFileURLfromHTML(inputHTML []byte) ([]SpecInfo, error):
\* url.Parse of the constant base and the parse of an in-memory document
\* do not fail
extractSpecFileURLfromHTML(inputHTML) ==
    [specInfos |-> EachFrom(inputHTML, 1), err |-> NoError]

\* xxh3.Hash(body) in "%x"
xxh3Hash(body) == body.digest

\* an IsUpToDate that takes every page for the expected one
IsUpToDate_Always(expectHash, body) == TRUE

\* func IsUpToDate(expectHash string, body []byte) bool
IsUpToDate(expectHash, body) == expectHash = xxh3Hash(body)

\* what requestGet(urlSpecList) can return
Bodies == [digest : {currentHash, otherHash}, items : Pages]

\* everything but the updater
others == <<specFiles, pc, specVersion, yourFunc, maxConcurrency, testCases,
            idx, limit, procs, gstate, gret, gerr, cancelled, result, invoked,
            firstFail, seams, entry, reads, decodes, listed, valid, earlier,
            peer>>

\* log.Fatal(err) of ExitOnError, os.Exit(1) of main
Exit1(where) == [updater EXCEPT !.pc = "exited", !.status = 1, !.failedAt = where]

\* body, err := requestGet(urlSpecList); ExitOnError(err)
MainRequestGet ==
    /\ updater.pc = "idle"
    /\ \/ \E body \in Bodies :
             updater' = [updater EXCEPT !.pc = "fetched", !.body = body]
       \/ updater' = Exit1("requestGet")
    /\ UNCHANGED others

\* if !IsUpToDate(currentHash, body) { ...; os.Exit(1) }
MainIsUpToDate ==
    /\ updater.pc = "fetched"
    /\ updater' = IF ~IsUpToDate(currentHash, updater.body)
                  THEN Exit1("IsUpToDate")
                  ELSE [updater EXCEPT !.pc = "checked"]
    /\ UNCHANGED others

\* specList, err := extractSpecFileURLfromHTML(body); ExitOnError(err)
MainExtract ==
    /\ updater.pc = "checked"
    /\ LET r == extractSpecFileURLfromHTML(updater.body.items)
       IN  updater' = IF r.err # NoError
                      THEN Exit1("extractSpecFileURLfromHTML")
                      ELSE [updater EXCEPT !.pc = "download",
                                           !.specList = r.specInfos]
    /\ UNCHANGED others

\* one iteration of the download loop: ExitOnError(DownloadFile(spec.URL,
\* pathFileOut)); the request fails, or os.WriteFile fails, or the file is
\* written
MainDownloadFile ==
    /\ updater.pc = "download"
    /\ updater.next < Len(updater.specList)
    /\ LET spec == updater.specList[updater.next + 1]
           nameFileOut == nameFileSpec(spec.Version)
       IN  \/ updater' = Exit1("DownloadFile")
           \/ updater' = [Exit1("DownloadFile") EXCEPT
                            !.written = Append(@, [name |-> nameFileOut,
                                                   complete |-> FALSE])]
           \/ updater' = [updater EXCEPT
                            !.next = @ + 1,
                            !.written = Append(@, [name |-> nameFileOut,
                                                   complete |-> TRUE])]
    /\ UNCHANGED others

\* after the loop: json.MarshalIndent(specList) and
\* ExitOnError(os.WriteFile(pathSpecListOut, ...)); main returns
MainWriteList ==
    /\ updater.pc = "download"
    /\ updater.next = Len(updater.specList)
    /\ \/ updater' = [Exit1("WriteFile") EXCEPT
                        !.written = Append(@, [name |-> strSpecList,
                                               complete |-> FALSE])]
       \/ updater' = [updater EXCEPT
                        !.pc = "done", !.status = 0,
                        !.written = Append(@, [name |-> strSpecList,
                                               complete |-> TRUE])]
    /\ UNCHANGED others

InitUpdater ==
    /\ specFiles = Corpus(0)
    /\ pc = "idle"
    /\ specVersion = <<>>
    /\ yourFunc = <<>>
    /\ maxConcurrency = 0
    /\ testCases = <<>>
    /\ idx = 0
    /\ limit = 0
    /\ procs = 0
    /\ gstate = <<>>
    /\ gret = <<>>
    /\ gerr = NoError
    /\ cancelled = FALSE
    /\ result = NoError
    /\ invoked = <<>>
    /\ firstFail = 0
    /\ jsonUnmarshalVar = UnmarshalReal
    /\ nameFileSpecList = strSpecList
    /\ entry = "none"
    /\ reads = <<>>
    /\ decodes = 0
    /\ listed = NilList
    /\ valid = FALSE
    /\ earlier = "none"
    /\ peer = NoPeer
    /\ updater = NoUpdater

NextUpdater ==
    \/ MainRequestGet
    \/ MainIsUpToDate
    \/ MainExtract
    \/ MainDownloadFile
    \/ MainWriteList

SpecUpdater == InitUpdater /\ [][NextUpdater]_vars

\* ------------------------------------------------------------------------
\*  Vocabulary of the properties
\* ------------------------------------------------------------------------

\* the call got past validation, loading and decoding
Loaded ==
    /\ pc # "idle"
    /\ entry \in {"SpecCheck", "SpecCheckWithConcurrency"}
    /\ LoadTestCases(specFiles, jsonUnmarshalVar, specVersion).err = NoError

\* the call runs (or ran) the concurrent scheduler
ConcurrentMode == Loaded /\ maxConcurrency # 0 - 1

\* the call runs (or ran) the sequential loop
SequentialMode == Loaded /\ maxConcurrency = 0 - 1

\* the user function makes fixture i fail: it returns an error or a string
\* other than the recorded html
FixtureFails(i) ==
    LET res == yourFunc[testCases[i].Markdown]
    IN  res.err # NoError \/ res.out # testCases[i].HTML

Failing == {i \in 1..NumCases : FixtureFails(i)}

AllPass == Failing = {}

\* the failure of fixture i as runSingleTest words it
FailureOf(i) ==
    LET res == yourFunc[testCases[i].Markdown]
        args == <<<<testCases[i].ExampleNum, "_", testCases[i].Section>>,
                  testCases[i].Markdown, testCases[i].HTML, res.out>>
    IN  IF res.err # NoError
        THEN <<[msg |-> msgFuncFailed, args |-> args]>> \o res.err
        ELSE <<[msg |-> msgMismatch, args |-> args]>>

\* the fixtures an error describes: those whose failure it ends with
Reported(err) ==
    {i \in 1..NumCases :
        /\ FixtureFails(i)
        /\ Len(err) > Len(FailureOf(i))
        /\ SubSeq(err, Len(err) - Len(FailureOf(i)) + 1, Len(err)) = FailureOf(i)}

\* the bound of the claim: max(1, L)
BoundOf(mc, units) == IF mc # 0 THEN (IF mc >= 1 THEN mc ELSE 1)
                      ELSE (IF units >= 1 THEN units ELSE 1)

\* ------------------------------------------------------------------------
\*  Properties
\* ------------------------------------------------------------------------

\* C1: in concurrent mode (maxConcurrency >= 0), once the first failure has
\* been recorded, no fixture that had not been handed to the scheduler is
\* started any more.
C1_NoDispatchAfterFailure ==
    [][(Loaded /\ maxConcurrency >= 0 /\ pc \in {"dispatch", "wait"} /\ gerr # NoError)
        => \A i \in DOMAIN gstate : gstate[i] = "none" => gstate'[i] = "none"]_vars

\* C2: for maxConcurrency >= 0 the invocations of the user function in
\* flight never exceed max(1, L), L being maxConcurrency when nonzero and
\* the number of execution units otherwise.
C2_InFlightBounded ==
    (Loaded /\ maxConcurrency >= 0) => InFlight <= BoundOf(maxConcurrency, procs)

\* C2 witness: the bound is reached while a fixture still waits for a permit
C2_Witness ==
    /\ Loaded /\ maxConcurrency >= 0
    /\ pc = "dispatch"
    /\ InFlight = BoundOf(maxConcurrency, procs)
    /\ InFlight >= 2

\* C3: a user function that returns the recorded html of every fixture
\* without error makes the check return nil, for every concurrency setting.
C3_GoldenPasses ==
    (pc = "done" /\ Loaded /\ AllPass) => result = NoError

\* C3 witness: a concurrent check of several fixtures that all pass returned
C3_Witness ==
    /\ pc = "done" /\ Loaded /\ AllPass
    /\ NumCases >= 2
    /\ maxConcurrency = 0
    /\ result = NoError

\* C4: when some fixture fails, the check returns a non-nil error, and the
\* error describes exactly one fixture, which is a failing one.
C4_FailureReported ==
    (pc = "done" /\ Loaded /\ ~AllPass) =>
        /\ result # NoError
        /\ Cardinality(Reported(result)) = 1
        /\ Reported(result) \subseteq Failing

\* C4 witness: a concurrent check with a passing and a failing fixture
\* returned the failure
C4_Witness ==
    /\ pc = "done" /\ ConcurrentMode
    /\ Failing # {} /\ Failing # 1..NumCases
    /\ result # NoError

\* C5: in concurrent mode the first-error slot holds the failure that
\* reached it first, later failures never replace it, and that failure is
\* the one returned.
C5_FirstFailureKept ==
    ConcurrentMode =>
        /\ (firstFail = 0 => gerr = NoError)
        /\ (firstFail # 0 => gerr = FailureOf(firstFail))
        /\ (pc = "done" /\ firstFail # 0 => Reported(result) = {firstFail})

\* C5 witness: two failures were recorded, the second fixture's first, and
\* the check returned the second fixture's failure
C5_Witness ==
    /\ pc = "done" /\ ConcurrentMode
    /\ NumCases >= 2
    /\ firstFail = 2
    /\ FixtureFails(1)
    /\ Reported(result) = {2}

\* C6: when the concurrent scheduler has returned, no invocation it started
\* is in flight and every started goroutine has completed.
C6_JoinedAtReturn ==
    (pc = "done" /\ ConcurrentMode) =>
        /\ InFlight = 0
        /\ \A i \in DOMAIN gstate : gstate[i] \in {"none", "finished"}

\* C6 witness: a failing concurrent check of several fixtures returned with
\* all of its goroutines finished
C6_Witness ==
    /\ pc = "done" /\ ConcurrentMode
    /\ NumCases >= 2
    /\ result # NoError
    /\ \A i \in DOMAIN gstate : gstate[i] = "finished"

\* C7: with the default concurrency and a user function that is wrong for
\* every fixture, the failure returned is that of the first fixture.
C7_FirstFixtureReported ==
    (pc = "done" /\ Loaded /\ maxConcurrency = defaultConcurrency
        /\ NumCases >= 1 /\ Failing = 1..NumCases)
    => Reported(result) = {1}

\* C8: with maxConcurrency = -1 at most one invocation is in flight, the
\* invoked fixtures always form a prefix of the fixture order with one
\* invocation each, and when all pass every fixture has been invoked once
\* at return.
C8_SequentialOneAtATime ==
    SequentialMode =>
        /\ InFlight <= 1
        /\ \A i \in 1..NumCases : invoked[i] <= 1
        /\ \A i, j \in 1..NumCases : (i < j /\ invoked[j] = 1) => invoked[i] = 1
        /\ \A i \in DOMAIN gstate : gstate[i] = "none"
        /\ (pc = "done" /\ AllPass => \A i \in 1..NumCases : invoked[i] = 1)

\* C8 witness: a sequential check of several passing fixtures returned
C8_Witness ==
    /\ pc = "done" /\ SequentialMode /\ AllPass
    /\ NumCases >= 2
    /\ \A i \in 1..NumCases : invoked[i] = 1

\* C9: with maxConcurrency = -1 and lowest failing fixture i, the check
\* returns the failure of i, has invoked the user function once for each
\* fixture up to i and never for a later one.
C9_SequentialShortCircuit ==
    (pc = "done" /\ SequentialMode /\ ~AllPass) =>
        LET low == CHOOSE i \in Failing : \A j \in Failing : i <= j
        IN  /\ Reported(result) = {low}
            /\ \A i \in 1..NumCases : invoked[i] = (IF i <= low THEN 1 ELSE 0)

\* C9 witness: the second of three fixtures failed, the third would have
\* failed too and was never run
C9_Witness ==
    /\ pc = "done" /\ SequentialMode
    /\ NumCases >= 3
    /\ Failing = {2, 3}
    /\ invoked[2] = 1 /\ invoked[3] = 0
    /\ Reported(result) = {2}

\* C10: in concurrent mode, when every fixture passes, the user function
\* has been invoked exactly once per fixture when the check returns.
C10_AllInvokedOnce ==
    (pc = "done" /\ ConcurrentMode /\ AllPass) =>
        \A i \in 1..NumCases : invoked[i] = 1

\* C10 witness: a bounded concurrent check of several passing fixtures
\* returned nil
C10_Witness ==
    /\ pc = "done" /\ ConcurrentMode /\ AllPass
    /\ maxConcurrency >= 1
    /\ NumCases >= 2
    /\ result = NoError
    /\ \A i \in 1..NumCases : invoked[i] = 1

\* C11: with a bound N >= 2 the scheduler does not serialize the work: while
\* fewer than 2 goroutines hold a permit and a fixture remains, the
\* dispatcher can start the next one, and a started goroutine can call the
\* user function whatever the others are doing.
C11_NotSerialized ==
    (Loaded /\ maxConcurrency >= 2) =>
        /\ (pc = "dispatch" /\ Cardinality(Active) < 2) => ENABLED Dispatch
        /\ \A i \in DOMAIN gstate : gstate[i] = "spawned" => ENABLED Begin(i)

\* C11 witness: two invocations of the user function are in flight together
C11_Witness ==
    /\ Loaded /\ maxConcurrency >= 2
    /\ NumCases >= 2
    /\ InFlight >= 2

\* the parts of s between the occurrences of c
RECURSIVE SplitOn(_, _)
SplitOn(s, c) ==
    LET hits == {k \in 1..Len(s) : s[k] = c} IN
    IF hits = {} THEN <<s>>
    ELSE LET k == CHOOSE h \in hits : \A g \in hits : h <= g
         IN  <<SubSeq(s, 1, k - 1)>> \o SplitOn(SubSeq(s, k + 1, Len(s)), c)

\* s up to the first c (all of s when there is none), and what follows it
Before(s, c) == SplitOn(s, c)[1]
After(s, c) == SubSeq(s, Len(Before(s, c)) + 2, Len(s))
Has(s, c) == \E k \in 1..Len(s) : s[k] = c

AllDigits(p) == \A k \in 1..Len(p) : p[k] \in Digits

\* a non-negative integer in decimal, without leading zeros
IsNumeral(p) == p # <<>> /\ AllDigits(p) /\ (Len(p) > 1 => p[1] # "0")

\* 1 to 3 dot-separated integers
IsCore(s) ==
    LET parts == SplitOn(s, ".")
    IN  Len(parts) \in 1..3 /\ \A k \in 1..Len(parts) : IsNumeral(parts[k])

\* the grammar of the claim: "latest", or v and 1 to 3 dot-separated integers
ClaimGrammar(s) == s = strLatest \/ (s # <<>> /\ Head(s) = "v" /\ IsCore(Tail(s)))

\* dot-separated non-empty identifiers over [0-9A-Za-z-]; numeric ones
\* without leading zeros when strict
IsIdents(s, strict) ==
    LET ids == SplitOn(s, ".") IN
    \A k \in 1..Len(ids) :
        /\ ids[k] # <<>>
        /\ \A j \in 1..Len(ids[k]) : ids[k][j] \in Digits \cup Letters \cup {"-"}
        /\ (strict /\ AllDigits(ids[k])) => IsNumeral(ids[k])

\* the grammar of semantic versions with a leading v: the three-integer form
\* may carry a pre-release (-ids) and then build metadata (+ids)
SemverGrammar(s) ==
    /\ s # <<>> /\ Head(s) = "v"
    /\ LET body == Tail(s)
           main == Before(body, "+")
           core == Before(main, "-")
       IN  /\ IsCore(core)
           /\ (Has(body, "+") \/ Has(main, "-")) => Len(SplitOn(core, ".")) = 3
           /\ Has(main, "-") => IsIdents(After(main, "-"), TRUE)
           /\ Has(body, "+") => IsIdents(After(body, "+"), FALSE)

Validated == pc = "done" /\ entry = "isValidFormatVer"

\* C12 (as claimed): the validator returns true exactly for "latest" and for
\* v followed by 1 to 3 dot-separated non-negative integers.
C12_ExactlyPlainVersions == Validated => (valid <=> ClaimGrammar(specVersion))

\* C12 (amended): the validator returns true exactly for "latest" and for
\* semantic versions with a leading v: 1 to 3 dot-separated integers without
\* leading zeros, the three-integer form optionally followed by a
\* pre-release and/or build suffix.
C12_ExactlySemver ==
    Validated => (valid <=> (specVersion = strLatest \/ SemverGrammar(specVersion)))

\* C12 witness: a three-integer version with a pre-release and a build
\* suffix was validated and accepted
C12_Witness ==
    /\ Validated /\ valid
    /\ Has(specVersion, "-") /\ Has(specVersion, "+")

\* ------------------------------------------------------------------------
\*  Early returns of SpecCheckWithConcurrency
\* ------------------------------------------------------------------------

\* a call of SpecCheck or SpecCheckWithConcurrency was made and not yet
\* forgotten
Entered == pc # "idle" /\ entry \in {"SpecCheck", "SpecCheckWithConcurrency"}

\* "spec_<version>.json", spelled out
SpecFileName(version) ==
    <<"s", "p", "e", "c", "_">> \o version \o <<".", "j", "s", "o", "n">>

FileExists == SpecFileName(specVersion) \in DOMAIN specFiles

\* no goroutine was started and the user function was not invoked
NeverInvoked ==
    /\ idx = 0
    /\ \A i \in DOMAIN gstate : gstate[i] = "none"
    /\ \A i \in DOMAIN invoked : invoked[i] = 0

\* the error that follows the outermost message of err
CauseOf(err) == SubSeq(err, 2, Len(err))

\* C13: a call whose version string fails the syntax validation has
\* returned the invalid-version error, without reading a file, calling the
\* decoder or invoking the user function, whatever the store holds, the
\* decoder is patched to and maxConcurrency is.
C13_InvalidVersionFirst ==
    (Entered /\ ~valid) =>
        /\ pc = "done"
        /\ result = <<[msg |-> msgInvalidVersion, args |-> <<specVersion>>]>>
        /\ reads = <<>>
        /\ decodes = 0
        /\ NeverInvoked

\* C13 witness: an invalid version was refused in concurrent mode while the
\* store held fixtures and the decoder was patched to fail
C13_Witness ==
    /\ Entered /\ ~valid
    /\ result # NoError
    /\ maxConcurrency = 2
    /\ jsonUnmarshalVar = UnmarshalForced
    /\ Len(specFiles[SpecFileName(strV030)].cases) >= 1

\* C14: a call with a valid version for which the store has no fixture
\* file has returned a not-found error naming spec_<version>.json; the
\* decoder was not called and the user function was not invoked.
C14_FileNotFound ==
    (Entered /\ valid /\ ~FileExists) =>
        /\ pc = "done"
        /\ Len(result) >= 2
        /\ result[1] = [msg |-> msgFileNotFound,
                        args |-> <<SpecFileName(specVersion)>>]
        /\ decodes = 0
        /\ NeverInvoked

\* C14 witness: "latest" passed the validation and its file was not found
C14_Witness ==
    /\ Entered /\ valid /\ ~FileExists
    /\ specVersion = strLatest
    /\ result # NoError
    /\ reads = <<SpecFileName(strLatest)>>

\* the decoder fails on the fixture file of the requested version
DecodeError ==
    jsonUnmarshal(jsonUnmarshalVar, specFiles[SpecFileName(specVersion)]).err

\* C15: a call whose fixture file exists and whose decoding fails has
\* returned an error that chains the decoder's failure, and the user
\* function was not invoked, in sequential and in concurrent mode.
C15_DecodeFailure ==
    (Entered /\ valid /\ FileExists /\ DecodeError # NoError) =>
        /\ pc = "done"
        /\ Len(result) >= 2
        /\ result[1].msg = msgParseList
        /\ CauseOf(result) = DecodeError
        /\ NeverInvoked

\* C15 witness: the decoder failed on a file holding fixtures, in
\* sequential mode
C15_Witness ==
    /\ Entered /\ valid /\ FileExists /\ DecodeError # NoError
    /\ maxConcurrency = 0 - 1
    /\ decodes = 1
    /\ Len(specFiles[SpecFileName(specVersion)].cases) >= 1
    /\ result # NoError

\* ------------------------------------------------------------------------
\*  Verdicts of single fixtures
\* ------------------------------------------------------------------------

\* what the user function returns for fixture i
ResultOn(i) == yourFunc[testCases[i].Markdown]

\* "<exampleNumber>_<section>" of fixture i
IdentOf(i) == <<testCases[i].ExampleNum, "_", testCases[i].Section>>

\* runSingleTest has returned for fixture i
Judged(i) ==
    IF maxConcurrency = 0 - 1
    THEN \/ pc \in {"seq", "done"} /\ i <= idx
         \/ pc = "seqRunning" /\ i < idx
    ELSE gstate[i] \in {"returned", "recorded", "finished"}

\* the verdict runSingleTest returned for fixture i, NoError being Pass: in
\* the sequential loop a failure is what the loop returns wrapped once, and
\* going on to the next fixture shows a Pass
VerdictOf(i) ==
    IF maxConcurrency = 0 - 1
    THEN (IF pc = "done" /\ i = idx THEN CauseOf(result) ELSE NoError)
    ELSE gret[i]

\* v is a function-error failure for fixture i with the function's failure
\* as its cause
IsFunctionError(v, i) ==
    /\ Len(v) >= 2
    /\ v[1].msg = msgFuncFailed
    /\ v[1].args[1] = IdentOf(i)
    /\ CauseOf(v) = ResultOn(i).err

\* v is a mismatch failure for fixture i
IsMismatch(v, i) ==
    /\ Len(v) = 1
    /\ v[1].msg = msgMismatch
    /\ v[1].args[1] = IdentOf(i)

\* the fixtures whose identifier the failure v carries
NamedBy(v) == {i \in 1..NumCases : v # NoError /\ v[1].args[1] = IdentOf(i)}

\* err ends with cause
EndsWith(err, cause) ==
    /\ Len(err) >= Len(cause)
    /\ SubSeq(err, Len(err) - Len(cause) + 1, Len(err)) = cause

\* C16: a fixture on which the user function returned a failure gets a
\* function-error verdict carrying "<exampleNumber>_<section>" and that
\* failure as its cause, whatever string came with it; and when the check
\* returns the verdict of such a fixture, in sequential or in concurrent
\* mode, the error it returns still ends with the function's failure.
C16_FunctionErrorVerdict ==
    Loaded =>
        /\ \A i \in 1..NumCases :
              (Judged(i) /\ ResultOn(i).err # NoError) =>
                  IsFunctionError(VerdictOf(i), i)
        /\ (pc = "done" /\ result # NoError) =>
              \A i \in NamedBy(CauseOf(result)) :
                  ResultOn(i).err # NoError =>
                      /\ IsFunctionError(CauseOf(result), i)
                      /\ EndsWith(result, ResultOn(i).err)

\* C16 witness: in concurrent mode the check returned the function error of
\* a fixture for which the function gave the expected html with its failure
C16_Witness ==
    /\ Loaded /\ pc = "done" /\ maxConcurrency # 0 - 1
    /\ \E i \in NamedBy(CauseOf(result)) :
          /\ ResultOn(i).err # NoError
          /\ ResultOn(i).out = testCases[i].HTML
          /\ result[2].msg = msgFuncFailed

\* C17: the verdict of a fixture is Pass exactly when the user function
\* returned no failure and a string equal to the fixture's html, character
\* for character; every other return without failure is a mismatch failure.
C17_PassIffExactlyEqual ==
    Loaded =>
        \A i \in 1..NumCases :
            Judged(i) =>
                /\ VerdictOf(i) = NoError <=>
                      (ResultOn(i).err = NoError /\ ResultOn(i).out = testCases[i].HTML)
                /\ (ResultOn(i).err = NoError /\ ResultOn(i).out # testCases[i].HTML)
                      => IsMismatch(VerdictOf(i), i)

\* C17 witness: the expected html after one space was judged a
\* mismatch, and another fixture passed
C17_Witness ==
    /\ Loaded
    /\ \E i \in 1..NumCases :
          /\ Judged(i)
          /\ ResultOn(i).err = NoError
          /\ ResultOn(i).out = <<" ">> \o testCases[i].HTML
          /\ IsMismatch(VerdictOf(i), i)
    /\ \E i \in 1..NumCases :
          Judged(i) /\ ResultOn(i).out = testCases[i].HTML /\ VerdictOf(i) = NoError

\* ------------------------------------------------------------------------
\*  SpecCheck and SpecCheckWithConcurrency
\* ------------------------------------------------------------------------

\* C20: a call of SpecCheck(version, fn) takes the step that
\* SpecCheckWithConcurrency(version, fn, 0) takes, and every step of
\* SpecCheckWithConcurrency(version, fn, 0) is one SpecCheck(version, fn)
\* takes: the same validation, loading and limit, and from there on the
\* same scheduler with the same possible results.
C20_SpecCheckIsConcurrencyZero ==
    [][/\ (entry = "none" /\ entry' = "SpecCheck") =>
            \E gomaxprocs \in 1..MaxProcs :
                CallBody(specVersion', yourFunc', 0, gomaxprocs)
       /\ (entry = "none" /\ entry' = "SpecCheckWithConcurrency"
             /\ maxConcurrency' = 0) =>
            \E gomaxprocs \in 1..MaxProcs :
                CallBody(specVersion', yourFunc', defaultConcurrency, gomaxprocs)
      ]_vars

\* C20 witness: a call of SpecCheck has two invocations in flight under the
\* limit GOMAXPROCS(0) = 2
C20_Witness ==
    /\ entry = "SpecCheck"
    /\ Loaded
    /\ maxConcurrency = 0
    /\ procs = 2 /\ limit = 2
    /\ InFlight = 2

\* ------------------------------------------------------------------------
\*  ListVersion
\* ------------------------------------------------------------------------

\* ListVersion has returned
Listed == pc = "done" /\ entry = "ListVersion"

\* the entries of the index file, as the store holds them
TheIndex == specFiles[strSpecList].cases

\* C18: a ListVersion that succeeds returns a list as long as the version
\* index whose i-th element is the version of the i-th entry: nothing is
\* sorted, dropped or merged.
C18_IndexOrderPreserved ==
    (Listed /\ result = NoError) =>
        /\ ~listed.isNil
        /\ Len(listed.items) = Len(TheIndex)
        /\ \A i \in 1..Len(TheIndex) : listed.items[i] = TheIndex[i].Version

\* C18 witness: an index that is neither newest first nor free of repeats
\* was listed as it stands
C18_Witness ==
    /\ Listed /\ result = NoError
    /\ Len(listed.items) = 3
    /\ listed.items[1] = "v0.13"
    /\ listed.items[2] = "v0.31.2"
    /\ listed.items[3] = "v0.13"

\* the failure of reading or decoding the index, NoError when both succeed
IndexFailure ==
    IF loadFile(specFiles, nameFileSpecList).err # NoError
    THEN loadFile(specFiles, nameFileSpecList).err
    ELSE jsonUnmarshal(jsonUnmarshalVar, specFiles[nameFileSpecList]).err

\* C19: when the index cannot be read or cannot be decoded, ListVersion
\* returns the nil list and an error that chains the failure; and whenever
\* it returns an error the list is nil.
C19_NilListOnFailure ==
    Listed =>
        /\ IndexFailure # NoError =>
              /\ listed = NilList
              /\ result # NoError
              /\ Len(result) > Len(IndexFailure)
              /\ EndsWith(result, IndexFailure)
        /\ result # NoError => listed = NilList

\* C19 witness: the decoder failed on an index of two entries or more
C19_Witness ==
    /\ Listed
    /\ nameFileSpecList = strSpecList
    /\ jsonUnmarshalVar = UnmarshalForced
    /\ Len(TheIndex) >= 2
    /\ decodes = 1
    /\ listed = NilList
    /\ result # NoError

\* ------------------------------------------------------------------------
\*  What the concurrent scheduler returns, and how often fixtures are run
\* ------------------------------------------------------------------------

C22_NoRetry ==
    Loaded => \A i \in 1..NumCases : invoked[i] <= 1

\* C22 witness: the sequential loop returned the failure of a fixture it
\* ran once
C22_Witness ==
    /\ pc = "done" /\ SequentialMode
    /\ result # NoError
    /\ idx >= 1
    /\ FixtureFails(idx)
    /\ invoked[idx] = 1

\* ------------------------------------------------------------------------
\*  The diagnostic of a failure
\* ------------------------------------------------------------------------

\* identifier, markdown, expected html and returned string of fixture i
DiagOf(i) ==
    <<IdentOf(i), testCases[i].Markdown, testCases[i].HTML, ResultOn(i).out>>

\* C23: the failure verdict of a fixture carries the identifier, markdown
\* and expected html of that fixture and the string its own invocation
\* returned; and the failure a check returns is, field for field, that of
\* one fixture that was run.
C23_DiagnosticOfOneFixture ==
    Loaded =>
        /\ \A i \in 1..NumCases :
              (Judged(i) /\ VerdictOf(i) # NoError) =>
                  VerdictOf(i)[1].args = DiagOf(i)
        /\ (pc = "done" /\ result # NoError) =>
              \E i \in 1..NumCases :
                  invoked[i] = 1 /\ CauseOf(result)[1].args = DiagOf(i)

\* C23 witness: two goroutines hold their failures at the same time, with
\* different returned strings
C23_Witness ==
    /\ ConcurrentMode
    /\ NumCases >= 2
    /\ gstate[1] = "returned" /\ gstate[2] = "returned"
    /\ gret[1] # NoError /\ gret[2] # NoError
    /\ gret[1][1].args = DiagOf(1)
    /\ gret[2][1].args = DiagOf(2)
    /\ ResultOn(1).out # ResultOn(2).out

\* the actual-output field of the failure v
ActualOf(v) == v[1].args[4]

\* C24 as claimed: in a function-error failure the actual-output field is
\* empty, whatever the user function returned with its failure.
C24_ActualAbsent ==
    Loaded =>
        \A i \in 1..NumCases :
            (Judged(i) /\ ResultOn(i).err # NoError) =>
                ActualOf(VerdictOf(i)) = <<>>

\* C24: in a function-error failure the actual-output field holds the
\* string the user function returned with its failure: it is empty exactly
\* when that string is empty.
C24_ActualAsReturned ==
    Loaded =>
        \A i \in 1..NumCases :
            (Judged(i) /\ ResultOn(i).err # NoError) =>
                /\ ActualOf(VerdictOf(i)) = ResultOn(i).out
                /\ ActualOf(VerdictOf(i)) = <<>> <=> ResultOn(i).out = <<>>

\* C24 witness: a function error shows the html that came with the failure
C24_Witness ==
    /\ Loaded
    /\ \E i \in 1..NumCases :
          /\ Judged(i)
          /\ ResultOn(i).err # NoError
          /\ ResultOn(i).out # <<>>
          /\ VerdictOf(i)[1].msg = msgFuncFailed
          /\ ActualOf(VerdictOf(i)) = testCases[i].HTML

\* ------------------------------------------------------------------------
\*  The fixture file of a version
\* ------------------------------------------------------------------------

\* C25: a call with a valid version V looks up the one file spec_V.json:
\* without it the call ends in the not-found error and has no fixtures,
\* with it (and a working decoder) the fixtures are those of that very
\* file; no other version's file stands in.
C25_ExactFileName ==
    (Entered /\ valid) =>
        /\ reads = <<SpecFileName(specVersion)>>
        /\ ~FileExists =>
              /\ pc = "done"
              /\ testCases = <<>>
              /\ result # NoError
              /\ result[1].msg = msgFileNotFound
        /\ (FileExists /\ DecodeError = NoError) =>
              testCases = specFiles[SpecFileName(specVersion)].cases

\* C25 witness: "v0.30.0" was not found although spec_v0.30.json holds
\* fixtures
C25_Witness ==
    /\ Entered /\ valid
    /\ specVersion = strV0300
    /\ Len(specFiles[SpecFileName(strV030)].cases) >= 1
    /\ reads = <<SpecFileName(strV0300)>>
    /\ result # NoError
    /\ result[1].msg = msgFileNotFound

\* ------------------------------------------------------------------------
\*  Calls that follow one another
\* ------------------------------------------------------------------------

\* C26: whatever the call before did, a call with a valid version reads
\* the fixture file and, having found it, decodes it; a decoder that fails
\* or a file that is not JSON ends the call in the decode error, a missing
\* file in the not-found error, an invalid version in the invalid-version
\* error.
C26_FreshLoadEveryCall ==
    Entered =>
        /\ valid => reads = <<SpecFileName(specVersion)>>
        /\ (valid /\ FileExists) => decodes = 1
        /\ (valid /\ FileExists /\ DecodeError # NoError) =>
              /\ pc = "done"
              /\ result # NoError
              /\ result[1].msg = msgParseList
              /\ CauseOf(result) = DecodeError
        /\ (valid /\ FileExists /\ DecodeError = NoError) =>
              testCases = specFiles[SpecFileName(specVersion)].cases
        /\ (valid /\ ~FileExists) =>
              pc = "done" /\ result # NoError /\ result[1].msg = msgFileNotFound
        /\ ~valid =>
              pc = "done" /\ result # NoError /\ result[1].msg = msgInvalidVersion

\* C26 witness: after a call that passed, the decoder was patched and the
\* next call of the same store failed to decode
C26_Witness ==
    /\ Entered /\ valid /\ FileExists
    /\ earlier = "passed"
    /\ specFiles[SpecFileName(specVersion)].json
    /\ DecodeError # NoError
    /\ decodes = 1
    /\ result # NoError
    /\ result[1].msg = msgParseList

\* C27: no step of SpecCheck, SpecCheckWithConcurrency or ListVersion, or
\* of the goroutines they start, changes the store.
C27_StoreUnchanged == [][specFiles' = specFiles]_vars

\* C27 witness: after a call that failed, ListVersion lists the index as
\* shipped
C27_Witness ==
    /\ earlier = "failed"
    /\ pc = "done" /\ entry = "ListVersion"
    /\ result = NoError
    /\ listed.items = VersionsOf(RefIndex)
    /\ specFiles[strSpecList] = IndexFile(RefIndex)

\* ------------------------------------------------------------------------
\*  Termination
\* ------------------------------------------------------------------------

\* every invocation of the user function that has begun returns
EveryInvocationReturns ==
    /\ WF_vars(SeqReturn)
    /\ \A i \in 1..MaxLiveFixtures : WF_vars(GoReturn(i))

\* C28: under fair scheduling, if every invocation of the user function
\* returns, every call of SpecCheckWithConcurrency returns, whatever the
\* limit, the number of fixtures and the fixtures that fail. Fairness is
\* assumed of everything but the user function, so a call that never
\* returns has an invocation that never returns.
C28_CallReturns ==
    EveryInvocationReturns => (Entered ~> pc = "done")

\* C28 witness: a check under the limit 1 of several fixtures, one of them
\* failing, has returned
C28_Witness ==
    /\ pc = "done" /\ ConcurrentMode
    /\ limit = 1
    /\ NumCases >= 2
    /\ Failing # {}
    /\ result # NoError

\* ------------------------------------------------------------------------
\*  Fixtures run after a failure, and the limit 1
\* ------------------------------------------------------------------------

\* C29: when the concurrent scheduler has returned, the user function has
\* been invoked exactly once for every fixture of the version, whether or
\* not a fixture failed.
C29_AllRunDespiteFailure ==
    (pc = "done" /\ ConcurrentMode) =>
        \A i \in 1..NumCases : invoked[i] = 1 /\ gstate[i] = "finished"

\* C29 witness: under the limit 1 the first fixture failed and the
\* fixtures after it were run all the same
C29_Witness ==
    /\ pc = "done" /\ ConcurrentMode
    /\ limit = 1
    /\ NumCases >= 3
    /\ firstFail = 1
    /\ \A i \in 1..NumCases : invoked[i] = 1

\* the lowest-index failing fixture
LowestFailing == CHOOSE i \in Failing : \A j \in Failing : i <= j

\* C30: with maxConcurrency = 1 the scheduler starts fixture i + 1 only
\* when the goroutine of fixture i has finished, so it has one invocation
\* in flight at most and returns the failure of the lowest-index failing
\* fixture, the fixture the sequential loop reports.
C30_LimitOneInOrder ==
    /\ (Loaded /\ maxConcurrency = 1) =>
          /\ InFlight <= 1
          /\ \A i \in 1..NumCases :
                gstate[i] # "none" =>
                    \A j \in 1..(i - 1) : gstate[j] = "finished"
    /\ (pc = "done" /\ Loaded /\ maxConcurrency \in {1, noConcurrency}
          /\ Failing # {}) =>
          Reported(result) = {LowestFailing}

\* C30 witness: with maxConcurrency = 1 the second and third fixture
\* failed and the check returned the failure of the second
C30_Witness ==
    /\ pc = "done" /\ Loaded /\ maxConcurrency = 1
    /\ NumCases >= 3
    /\ Failing = {2, 3}
    /\ Reported(result) = {2}

\* ------------------------------------------------------------------------
\*  Negative values of maxConcurrency
\* ------------------------------------------------------------------------

\* C31: a call with maxConcurrency below -1 is on the concurrent path with
\* no limit: the dispatcher is never kept waiting, whatever is in flight,
\* and when the call has returned every goroutine has finished.
C31_BelowMinusOneUnlimited ==
    (Loaded /\ maxConcurrency < 0 - 1) =>
        /\ pc \notin {"seq", "seqRunning"}
        /\ limit < 0
        /\ pc = "dispatch" => ENABLED Dispatch
        /\ pc = "done" =>
              /\ InFlight = 0
              /\ \A i \in 1..NumCases : gstate[i] = "finished"

\* C31 witness: with maxConcurrency = -2 every fixture's invocation is in
\* flight at once
C31_Witness ==
    /\ Loaded /\ maxConcurrency = 0 - 2
    /\ NumCases >= 3
    /\ InFlight = NumCases

\* ------------------------------------------------------------------------
\*  A version without fixtures
\* ------------------------------------------------------------------------

\* C33: a call whose decoded fixture set is empty never enters the loop or
\* starts a goroutine, and returns nil, in sequential and in concurrent
\* mode.
C33_EmptySetPasses ==
    (Loaded /\ NumCases = 0) =>
        /\ pc \in {"wait", "done"}
        /\ maxConcurrency = noConcurrency => pc = "done"
        /\ idx = 0 /\ gstate = <<>> /\ invoked = <<>>
        /\ pc = "done" => result = NoError

\* C33 witness: the concurrent scheduler returned nil for a fixture file
\* that decodes to no fixture
C33_Witness ==
    /\ Loaded /\ NumCases = 0
    /\ valid /\ decodes = 1
    /\ ConcurrentMode
    /\ pc = "done"
    /\ result = NoError

\* ------------------------------------------------------------------------
\*  Two calls at the same time
\* ------------------------------------------------------------------------

\* the fixtures the second call's user function fails
PeerFailing ==
    {i \in 1..PeerNumCases :
        LET res == peer.yourFunc[peer.testCases[i].Markdown]
        IN  res.err # NoError \/ res.out # peer.testCases[i].HTML}

\* the first call has, in every state, what it has when it runs alone: its
\* goroutines within its own limit, its slot empty or holding a failure of
\* its own, its result nil when its fixtures pass and the failure in its
\* slot otherwise
OwnAsAlone ==
    (Loaded /\ maxConcurrency >= 1) =>
        /\ Cardinality(Active) <= maxConcurrency
        /\ gerr # NoError => \E i \in Failing : gerr = gret[i] /\ gret[i] # NoError
        /\ pc = "done" =>
              /\ AllPass => result = NoError
              /\ ~AllPass =>
                    /\ gerr # NoError
                    /\ result = <<[msg |-> msgConcurrently, args |-> <<>>]>> \o gerr

\* and so has the second call
PeerAsAlone ==
    peer.pc # "idle" =>
        /\ Cardinality(PeerActive) <= peer.limit
        /\ peer.gerr # NoError =>
              \E i \in PeerFailing : peer.gerr = peer.gret[i] /\ peer.gret[i] # NoError
        /\ peer.pc = "done" =>
              /\ PeerFailing = {} => peer.result = NoError
              /\ PeerFailing # {} =>
                    /\ peer.gerr # NoError
                    /\ peer.result =
                          <<[msg |-> msgConcurrently, args |-> <<>>]>> \o peer.gerr

\* C32: of two calls running at the same time, every step is a step of
\* one call and leaves the state of the other as it is (its error slot, its
\* goroutines, its result), and each call has the bound and the result it
\* has when it runs alone.
C32_CallsIndependent ==
    /\ [](OwnAsAlone /\ PeerAsAlone)
    /\ [][peer' = peer \/ own' = own]_vars

\* C32 witness: the second call has recorded a failure while the first
\* call, whose fixtures all pass, has an invocation in flight
C32_Witness ==
    /\ Loaded /\ AllPass
    /\ NumCases >= 2
    /\ InFlight >= 1
    /\ gerr = NoError
    /\ peer.gerr # NoError
    /\ Cardinality(PeerActive) + Cardinality(Active) > maxConcurrency

\* the updater has the page
PageFetched == updater.pc # "idle" /\ updater.failedAt # "requestGet"

\* os.WriteFile was called for the version index
IndexWritten ==
    \E k \in DOMAIN updater.written : updater.written[k].name = strSpecList

\* C34: when the hash of the fetched page differs from the expected hash the
\* updater exits with status 1 and has called os.WriteFile for no file; the
\* version index is written only after a complete fixture file for every
\* entry of the list, in order; and a failed download ends the run with
\* status 1 before any later download and before the index.
C34_DownloadsOnlyIfUnmodified ==
    /\ (PageFetched /\ xxh3Hash(updater.body) # currentHash) =>
          /\ updater.written = <<>>
          /\ updater.pc \in {"fetched", "exited"}
          /\ updater.pc = "exited" =>
                updater.status = 1 /\ updater.failedAt = "IsUpToDate"
    /\ IndexWritten =>
          /\ Len(updater.written) = Len(updater.specList) + 1
          /\ updater.written[Len(updater.written)].name = strSpecList
          /\ \A k \in 1..Len(updater.specList) :
                updater.written[k] =
                    [name |-> prefixFileSpec \o updater.specList[k].Version \o extJSON,
                     complete |-> TRUE]
    /\ updater.failedAt = "DownloadFile" =>
          /\ updater.pc = "exited" /\ updater.status = 1
          /\ ~IndexWritten
          /\ updater.next < Len(updater.specList)
          /\ Len(updater.written) \in {updater.next, updater.next + 1}
          /\ \A k \in 1..updater.next : updater.written[k].complete

\* C34 witness: a page with a release to download has another hash, and the
\* updater has exited
C34_Witness ==
    /\ updater.pc = "exited"
    /\ updater.failedAt = "IsUpToDate"
    /\ extractSpecFileURLfromHTML(updater.body.items).specInfos # <<>>

\* s without the white space around it
Stripped(s) ==
    LET ink == {k \in 1..Len(s) : s[k] \notin WhiteSpace} IN
    IF ink = {} THEN <<>>
    ELSE SubSeq(s, CHOOSE a \in ink : \A b \in ink : a <= b,
                   CHOOSE a \in ink : \A b \in ink : a >= b)

\* the text of the first link of a list item
FirstLinkText(item) ==
    IF item.links = <<>> THEN <<>> ELSE Stripped(item.links[1].text)

\* the version t (a semantic version without its v) is 0.13 or newer: its
\* numbers, missing ones being 0, are not below 0.13.0, and 0.13.0 itself
\* carries no pre-release
NotOlderThanMin(t) ==
    LET main == Before(t, "+")
        parts == SplitOn(Before(main, "-"), ".")
        num(k) == IF k <= Len(parts) THEN NumVal(parts[k]) ELSE 0
    IN  \/ num(1) > 0
        \/ num(1) = 0 /\ num(2) > 13
        \/ num(1) = 0 /\ num(2) = 13 /\ num(3) > 0
        \/ num(1) = 0 /\ num(2) = 13 /\ num(3) = 0 /\ ~Has(main, "-")

\* the four conditions of the claim on a list item
Qualifies(item) ==
    /\ SemverGrammar(<<"v">> \o FirstLinkText(item))
    /\ NotOlderThanMin(FirstLinkText(item))
    /\ item.dates # <<>>
    /\ \E k \in DOMAIN item.links :
          /\ item.links[k].hasHref
          /\ Len(item.links[k].href) >= 2
          /\ item.links[k].href[Len(item.links[k].href)] = "spec.json"

\* main has the list extractSpecFileURLfromHTML returned
Extracted ==
    \/ updater.pc \in {"download", "done"}
    \/ updater.failedAt \in {"DownloadFile", "WriteFile"}

\* C35: the extraction returns no error, and its list has one entry for
\* each list item that qualifies (first link text a semantic version once a
\* v is put before it, not older than 0.13, a parenthesized date in the
\* item, a link ending in /spec.json), in page order and for no other item;
\* the version of an entry is the link text with a v before it.
C35_OneEntryPerQualifyingItem ==
    /\ updater.failedAt # "extractSpecFileURLfromHTML"
    /\ Extracted =>
          LET chosen == SelectSeq(updater.body.items, Qualifies) IN
          /\ Len(updater.specList) = Len(chosen)
          /\ \A k \in 1..Len(chosen) :
                /\ updater.specList[k].Version = <<"v">> \o FirstLinkText(chosen[k])
                /\ Head(updater.specList[k].Version) = "v"
                /\ \E d \in DOMAIN chosen[k].dates :
                      updater.specList[k].DateEnactment = chosen[k].dates[d]

\* C35 witness: of two list items the first is a release older than 0.13
\* and is skipped, the second is listed
C35_Witness ==
    /\ Extracted
    /\ Len(updater.body.items) >= 2
    /\ FirstLinkText(updater.body.items[1]) = str012
    /\ Len(updater.specList) = 1
    /\ updater.specList[1].Version = <<"v">> \o minVerSpec

====
